---- MODULE Spec2Model ----
(***************************************************************************)
(* Verification model of the os2omf decoders (MZ / NE / LE / LX images).   *)
(*                                                                         *)
(* The image is a sequence of bytes; file offset o is file[o + 1].  A      *)
(* decoder is a state machine over the reader cursor `pos`: one action per *)
(* call or per loop iteration of the code.  `pc` is the outcome so far:    *)
(* "run" while the decoder is in its loop, "ok" after Ok(..), "err" after  *)
(* Err(..) and "panic" when the process aborts.  Arithmetic that panics in *)
(* a build with overflow checks and wraps in one without is modelled by    *)
(* the flag `wrap` that every step draws from BOOLEAN.                     *)
(***************************************************************************)
EXTENDS Integers, Sequences, FiniteSets, TLC

VARIABLES
    file,       \* the image, a sequence of bytes
    pos,        \* the reader's cursor (absolute file offset)
    pc,         \* "run" | "ok" | "err" | "panic"
    err,        \* the error value of an Err(..) result, <<>> when none
    e_align,    \* NE header: sector alignment shift        (segments)
    e_cseg,     \* NE header: number of segments            (segments)
    segments,   \* NeSegment values read so far             (segments)
    attempt,    \* outcome of the latest NeSegment::read    (segments)
    cb_ent_tab,      \* NE header: byte length of the entry table  (entries)
    bytes_remaining, \* EntryTable::read: its u16 counter          (entries)
    entries,         \* EntryTable::read: entries pushed so far    (entries)
    ordinal,         \* EntryTable::read: _ordinal                 (entries)
    bundles,         \* bundle headers read so far, with offsets   (entries)
    base_offset,     \* LinearExecutableLayout::get: base_offset   (LE/LX layout)
    header,          \* LinearExecutableLayout::get: header        (LE/LX layout)
    fixup_page_table, \* FixupPageTable handed to the record decoder (fixups)
    logical_page,     \* FixupRecordsTable::read: pages done         (fixups)
    records,          \* FixupRecordsTable::read: records pushed     (fixups)
    import_data,      \* ImportData handed to the import resolver     (imports)
    modules,          \* ImportRelocationsTable::read: modules        (imports)
    imports,          \* ImportRelocationsTable::read: imports        (imports)
    next_record,      \* ImportRelocationsTable::read: records taken  (imports)
    new_header,       \* NewExecutableLayout::get: new_header         (NE layout)
    mod_tab,          \* NewExecutableLayout::get: mod_tab            (NE layout)
    entry_table,      \* exe386 EntryTable::read: bundles             (LE/LX tables)
    object_pages,     \* ObjectPagesTable::read: pages                (LE/LX tables)
    directives        \* ModuleDirectivesTable::read: directives      (LE/LX tables)

vars == <<file, pos, pc, err, e_align, e_cseg, segments, attempt,
          cb_ent_tab, bytes_remaining, entries, ordinal, bundles,
          base_offset, header, fixup_page_table, logical_page, records,
          import_data, modules, imports, next_record,
          new_header, mod_tab, entry_table, object_pages, directives>>

tabVars == <<new_header, mod_tab, entry_table, object_pages, directives>>

IdleTab ==
    /\ new_header = <<>>
    /\ mod_tab = <<>>
    /\ entry_table = <<>>
    /\ object_pages = <<>>
    /\ directives = <<>>

lxVars == <<base_offset, header>>

fixVars == <<fixup_page_table, logical_page, records>>

impVars == <<import_data, modules, imports, next_record>>

IdleImp ==
    /\ import_data = <<>>
    /\ modules = <<>>
    /\ imports = <<>>
    /\ next_record = 0

IdleFix ==
    /\ fixup_page_table = [page_offsets |-> <<>>, end_of_fixup_records |-> 0]
    /\ logical_page = 0
    /\ records = <<>>

entVars == <<cb_ent_tab, bytes_remaining, entries, ordinal, bundles>>

IdleLx ==
    /\ base_offset = -1
    /\ header = <<>>

IdleSeg ==
    /\ e_align = 0
    /\ e_cseg = 0
    /\ segments = <<>>
    /\ attempt = [st |-> "none"]

IdleEnt ==
    /\ cb_ent_tab = 0
    /\ bytes_remaining = 0
    /\ entries = <<>>
    /\ ordinal = 1
    /\ bundles = <<>>

segVars == <<e_align, e_cseg, segments, attempt>>

-----------------------------------------------------------------------------
(* Byte source                                                             *)

Byte == 0..255

NoErr == <<>>

\* read_exact(n) at cursor p succeeds iff the n bytes exist
CanRead(f, p, n) == p + n <= Len(f)

U8At(f, o) == f[o + 1]

\* u16::from_le_bytes
U16At(f, o) == f[o + 1] + 256 * f[o + 2]

U32At(f, o) == f[o + 1] + 256 * f[o + 2] + 65536 * f[o + 3] + 16777216 * f[o + 4]

U16Bytes(v) == <<v % 256, (v \div 256) % 256>>

\* v & m for the one-bit and low-bit masks the decoders use
BitSet(v, bit) == (v \div bit) % 2 = 1

RECURSIVE Flatten(_)
Flatten(ss) == IF ss = <<>> THEN <<>> ELSE Head(ss) \o Flatten(Tail(ss))

Zeros(n) == [i \in 1..n |-> 0]

-----------------------------------------------------------------------------
(* NE per-segment relocations: exe286/segrelocs.rs                         *)

\* FPUFixupType::get_from, the variant given by its discriminant
FPUFixupType_get_from(u) == IF u \in 1..5 THEN u ELSE 5

\* one 8-byte relocation record at offset o
RelocationEntry(f, o) ==
    LET address_type == U8At(f, o)
        reloc_flags == U8At(f, o + 1)
        reloc_type == reloc_flags % 4
        target ==
            CASE reloc_type = 0 ->
                     [kind |-> "Internal", int_seg |-> U8At(f, o + 4),
                      int_mov |-> (U8At(f, o + 4) = 255),
                      int_offset |-> U16At(f, o + 6)]
              [] reloc_type = 1 ->
                     [kind |-> "ImportOrdinal", imp_mod_index |-> U16At(f, o + 4),
                      imp_ordinal |-> U16At(f, o + 6)]
              [] reloc_type = 2 ->
                     [kind |-> "ImportName", imp_mod_index |-> U16At(f, o + 4),
                      imp_offset |-> U16At(f, o + 6)]
              [] OTHER ->
                     [kind |-> "OSFixup",
                      osf_type |-> FPUFixupType_get_from(U16At(f, o + 4)),
                      osf_padd |-> U16At(f, o + 6)]
    IN  [rel_atp |-> address_type, rel_rtp |-> reloc_type,
         rel_add |-> BitSet(reloc_flags, 4), rel_seg_ptr |-> U16At(f, o + 2),
         rel_type |-> target]

\* RelocationTable::read at cursor p: a u16 count, then count 8-byte records
RelocationTable_read(f, p) ==
    IF ~CanRead(f, p, 2) THEN [st |-> "err", rel_entries |-> <<>>, pos |-> p]
    ELSE LET count == U16At(f, p)
             fit == (Len(f) - (p + 2)) \div 8
         IN  IF fit < count
             THEN [st |-> "err", rel_entries |-> <<>>, pos |-> p + 2 + 8 * fit]
             ELSE [st |-> "ok",
                   rel_entries |-> [k \in 1..count |-> RelocationEntry(f, p + 2 + 8 * (k - 1))],
                   pos |-> p + 2 + 8 * count]

-----------------------------------------------------------------------------
(* NE segment table: exe286/segtab.rs                                      *)

SEG_RELOCS == 256

NeSegmentHeader_read(f, p) ==
    [sector_base |-> U16At(f, p), sector_length |-> U16At(f, p + 2),
     flags |-> U16At(f, p + 4), min_alloc |-> U16At(f, p + 6)]

relocations_stripped(h) == ~BitSet(h.flags, SEG_RELOCS)

data_length(h) == IF h.sector_length = 0 THEN 65536 ELSE h.sector_length

RECURSIVE BitLen(_)
BitLen(v) == IF v = 0 THEN 0 ELSE 1 + BitLen(v \div 2)

\* Positions the checker's integers cannot hold stand for "far beyond the
\* end of every image of the model".
FarOffset == 1073741824

MaxExactShift == 14

None == -1

\* (sector_base as u64).checked_mul(1 << s) for s in 0..63
CheckedMulPow2(base, s) ==
    IF base = 0 THEN 0
    ELSE IF BitLen(base) + s > 64 THEN None
    ELSE IF s <= MaxExactShift THEN base * 2^s
    ELSE FarOffset

\* base_shifted.checked_add(sector_length as u64)
CheckedAdd(a, b) == IF a >= FarOffset THEN FarOffset ELSE a + b

\* the position read_relocs computes; alignment < 64 or the shift wrapped
RelocPosition(h, alignment) ==
    LET m == CheckedMulPow2(h.sector_base, alignment % 64)
    IN  IF m = None THEN None ELSE CheckedAdd(m, h.sector_length)

\* read_relocs with the end-of-file test off by the two bytes of the count
NeSegment_read_relocs_ShortTail(f, p, alignment, h, wrap) ==
    IF alignment >= 64 /\ ~wrap
    THEN [st |-> "panic", relocs |-> <<>>, relocPos |-> None, seeks |-> 0, pos |-> p]
    ELSE LET position == RelocPosition(h, alignment)
         IN  IF position = None
             THEN [st |-> "ok", relocs |-> <<>>, relocPos |-> None, seeks |-> 0, pos |-> p]
             ELSE IF position > Len(f)
             THEN [st |-> "ok", relocs |-> <<>>, relocPos |-> position, seeks |-> 2, pos |-> p]
             ELSE LET t == RelocationTable_read(f, position)
                  IN  [st |-> t.st, relocs |-> t.rel_entries, relocPos |-> position,
                       seeks |-> 3, pos |-> t.pos]

\* NeSegment::read_relocs with the cursor at p (just after the header)
NeSegment_read_relocs(f, p, alignment, h, wrap) ==
    IF alignment >= 64 /\ ~wrap
    THEN [st |-> "panic", relocs |-> <<>>, relocPos |-> None, seeks |-> 0, pos |-> p]
    ELSE LET position == RelocPosition(h, alignment)
         IN  IF position = None
             THEN [st |-> "ok", relocs |-> <<>>, relocPos |-> None, seeks |-> 0, pos |-> p]
             ELSE IF position + 2 > Len(f)
             THEN [st |-> "ok", relocs |-> <<>>, relocPos |-> position, seeks |-> 2, pos |-> p]
             ELSE LET t == RelocationTable_read(f, position)
                  IN  [st |-> t.st, relocs |-> t.rel_entries, relocPos |-> position,
                       seeks |-> 3, pos |-> t.pos]

\* NeSegment::read with the cursor at p
NeSegment_read(f, p, align, wrap) ==
    LET alignment == IF align = 0 THEN 9 ELSE align
    IN  IF ~CanRead(f, p, 8)
        THEN [st |-> "err", pos |-> p]
        ELSE LET h == NeSegmentHeader_read(f, p)
                 r == IF ~relocations_stripped(h)
                      THEN NeSegment_read_relocs(f, p + 8, alignment, h, wrap)
                      ELSE [st |-> "ok", relocs |-> <<>>, relocPos |-> None,
                            seeks |-> 0, pos |-> p + 8]
             IN  [st |-> r.st, pos |-> r.pos, hdrAt |-> p, header |-> h,
                  shift_count |-> alignment, relocs |-> r.relocs,
                  relocPos |-> r.relocPos, seeks |-> r.seeks]

-----------------------------------------------------------------------------
(* NewExecutableLayout::get, the segment loop: exe286/mod.rs               *)

\* bounds of the segment-table images
MaxSeg == 2
MaxRelocs == 1
SegPad == 4

\* offset(e_seg_tab): the bytes before it stand for the MZ and NE headers
SegTabOffset == SegPad

SegBaseSet == {0, 1, 2}
SegLengthSet == {0, 12}
SegFlagSet == {0, 256, 257}
AlignSet == {0, 1, 3, 63, 64}

SegHeaderBytes(b, l, fl) == U16Bytes(b) \o U16Bytes(l) \o U16Bytes(fl) \o <<0, 0>>

SegHeaderImages ==
    {SegHeaderBytes(b, l, fl) : b \in SegBaseSet, l \in SegLengthSet, fl \in SegFlagSet}

\* one relocation record of each kind
RelocRecordImages ==
    {<<3, 0, 16, 0, 1, 0, 32, 0>>, <<3, 5, 16, 0, 2, 0, 7, 0>>}

\* what follows the segment table: nothing, or a relocation table that may
\* be cut short
SegTailImages ==
    {<<>>, <<0>>, <<0, 0>>, <<1, 0>>}
    \cup {<<1, 0>> \o r : r \in RelocRecordImages}
    \cup {<<MaxRelocs + 1, 0>> \o r : r \in RelocRecordImages}

NoAttempt == [st |-> "none"]

InitSeg ==
    /\ IdleTab
    /\ e_align \in AlignSet
    /\ e_cseg \in 1..MaxSeg
    /\ \E hs \in [1..e_cseg -> SegHeaderImages], t \in SegTailImages :
           file = Zeros(SegPad) \o Flatten(hs) \o t
    /\ pos = SegTabOffset
    /\ pc = "run"
    /\ err = NoErr
    /\ segments = <<>>
    /\ attempt = NoAttempt
    /\ IdleEnt
    /\ IdleLx
    /\ IdleFix
    /\ IdleImp

\* one iteration of `for _ in 0..new_header.e_cseg`
SegRead ==
    /\ pc = "run"
    /\ Len(segments) < e_cseg
    /\ \E wrap \in BOOLEAN :
           LET r == NeSegment_read(file, pos, e_align, wrap)
           IN  /\ pos' = r.pos
               /\ attempt' = r
               /\ IF r.st = "ok"
                  THEN /\ segments' = Append(segments, r)
                       /\ pc' = "run"
                  ELSE /\ segments' = segments
                       /\ pc' = r.st
    /\ UNCHANGED <<tabVars, file, err, e_align, e_cseg, entVars, lxVars, fixVars, impVars>>

\* the loop is over
SegDone ==
    /\ pc = "run"
    /\ Len(segments) = e_cseg
    /\ pc' = "ok"
    /\ UNCHANGED <<tabVars, file, pos, err, segVars, entVars, lxVars, fixVars, impVars>>

NextSeg == SegRead \/ SegDone

SpecSeg == InitSeg /\ [][NextSeg]_vars

HasRelocs(a) == BitSet(a.header.flags, SEG_RELOCS)

\* C1: the 8-byte header of segment i is read from base + segTabRel + 8*i,
\* whatever the relocation tables of the segments before it: while the loop
\* runs the cursor stands at the next header of the table.
C1_HeaderOffsets ==
    /\ \A i \in 1..Len(segments) : segments[i].hdrAt = SegTabOffset + 8 * (i - 1)
    /\ pc = "run" /\ Len(segments) < e_cseg => pos = SegTabOffset + 8 * Len(segments)

\* C8: for a segment with flags & 0x0100 the relocation table is read at
\* (sectorBase << shift) + L, L the data length, a stored 0 meaning 65536.
C8_RelocsAfterData ==
    \A i \in 1..Len(segments) :
        LET s == segments[i]
        IN  HasRelocs(s) /\ s.shift_count <= MaxExactShift
                => s.relocPos = s.header.sector_base * 2^s.shift_count + data_length(s.header)

-----------------------------------------------------------------------------
(* NE entry table: exe286/enttab.rs                                        *)

U16Max == 65535

FixedEntry_read(f, p, segment) ==
    [kind |-> "Fixed", segment |-> segment, flags |-> U8At(f, p),
     offset |-> U16At(f, p + 1)]

MoveableEntry_read(f, p) ==
    [kind |-> "Moveable", flags |-> U8At(f, p),
     magic |-> <<U8At(f, p + 1), U8At(f, p + 2)>>, segment |-> U8At(f, p + 3),
     offset |-> U16At(f, p + 4)]

Unused == [kind |-> "Unused"]

EofError == [kind |-> "UnexpectedEof"]

\* the io::Error built when a bundle does not fit
BundleSizeError(bundle_size, remaining) ==
    [kind |-> "InvalidData", what |-> "Bundle size exceeds remaining bytes",
     bundle_size |-> bundle_size, remaining |-> remaining]

\* the entry size chosen for a bundle that is not unused
EntrySize(seg_id) == IF seg_id = 255 THEN 6 ELSE 3

\* an unused bundle pushes one entry only
UnusedEntries_One(count) == <<Unused>>

\* `for _ in 0..entries_count { entries.push(Entry::Unused) }`
UnusedEntries(count) == [k \in 1..count |-> Unused]

\* the `count` entries of one bundle, read from p on
BundleEntries(f, p, count, seg_id) ==
    [k \in 1..count |->
        IF seg_id = 255 THEN MoveableEntry_read(f, p + 6 * (k - 1))
        ELSE FixedEntry_read(f, p + 3 * (k - 1), seg_id)]

\* One iteration of `while bytes_remaining > 0` with the cursor at p.
\* st: "run" (next iteration), "ok" (break), "err", "panic".
EntryTable_step(f, p, rem, ord, wrap) ==
    LET stay == [pos |-> p, rem |-> rem, ord |-> ord, new |-> <<>>,
                 hdr |-> <<>>, err |-> NoErr]
    IN  IF ~CanRead(f, p, 2)
        THEN [stay EXCEPT !.err = EofError] @@ [st |-> "err"]
        ELSE IF rem < 2 /\ ~wrap
        THEN [stay EXCEPT !.pos = p + 2] @@ [st |-> "panic"]
        ELSE
        LET rem2 == (rem - 2) % (U16Max + 1)
            entries_count == U8At(f, p)
            seg_id == U8At(f, p + 1)
            h == <<[at |-> p, count |-> entries_count, seg_id |-> seg_id]>>
            got == [stay EXCEPT !.pos = p + 2, !.rem = rem2, !.hdr = h]
            entry_size == EntrySize(seg_id)
            bundle_size == entries_count * entry_size
            fit == (Len(f) - (p + 2)) \div entry_size
            \* the first entry of the bundle whose `_ordinal += 1` overflows
            over == U16Max + 1 - ord
        IN  IF entries_count = 0
            THEN got @@ [st |-> "ok"]
            ELSE IF seg_id = 0
            THEN IF over <= entries_count /\ ~wrap
                 THEN got @@ [st |-> "panic"]
                 ELSE [got EXCEPT !.new = UnusedEntries(entries_count),
                                  !.ord = (ord + entries_count) % (U16Max + 1)]
                      @@ [st |-> "run"]
            ELSE IF bundle_size > rem2
            THEN [got EXCEPT !.err = BundleSizeError(bundle_size, rem2)]
                 @@ [st |-> "err"]
            ELSE IF over <= entries_count /\ over <= fit /\ ~wrap
            THEN [got EXCEPT !.pos = p + 2 + entry_size * over,
                             !.rem = rem2 - bundle_size]
                 @@ [st |-> "panic"]
            ELSE IF fit < entries_count
            THEN [got EXCEPT !.pos = p + 2 + entry_size * fit,
                             !.rem = rem2 - bundle_size, !.err = EofError]
                 @@ [st |-> "err"]
            ELSE [got EXCEPT !.pos = p + 2 + bundle_size,
                             !.rem = rem2 - bundle_size,
                             !.new = BundleEntries(f, p + 2, entries_count, seg_id),
                             !.ord = (ord + entries_count) % (U16Max + 1)]
                 @@ [st |-> "run"]

\* bounds of the entry-table images
MaxBundles == 3
MaxCb == 12
EntPad == 2

\* offset(e_ent_tab)
EntTabOffset == EntPad

BundleImages ==
    { <<0, 0>>,
      <<2, 0>>,
      <<1, 2, 1, 16, 0>>,
      <<2, 3, 1, 16, 0, 3, 32, 0>>,
      <<1, 255, 1, 205, 63, 1, 48, 0>>,
      <<200, 2, 1, 16, 0>> }

InitEnt ==
    /\ IdleTab
    /\ cb_ent_tab \in 0..MaxCb
    /\ \E n \in 0..MaxBundles : \E bs \in [1..n -> BundleImages] :
           file = Zeros(EntPad) \o Flatten(bs)
    /\ pos = EntTabOffset
    /\ pc = "run"
    /\ err = NoErr
    /\ bytes_remaining = cb_ent_tab
    /\ entries = <<>>
    /\ ordinal = 1
    /\ bundles = <<>>
    /\ IdleSeg
    /\ IdleLx
    /\ IdleFix
    /\ IdleImp

\* one iteration of `while bytes_remaining > 0`
EntBundle ==
    /\ pc = "run"
    /\ bytes_remaining > 0
    /\ \E wrap \in BOOLEAN :
           LET r == EntryTable_step(file, pos, bytes_remaining, ordinal, wrap)
           IN  /\ pos' = r.pos
               /\ bytes_remaining' = r.rem
               /\ entries' = entries \o r.new
               /\ ordinal' = r.ord
               /\ bundles' = bundles \o r.hdr
               /\ err' = r.err
               /\ pc' = r.st
    /\ UNCHANGED <<tabVars, file, cb_ent_tab, segVars, lxVars, fixVars, impVars>>

\* the loop condition fails: Ok(Self { entries })
EntDone ==
    /\ pc = "run"
    /\ bytes_remaining = 0
    /\ pc' = "ok"
    /\ UNCHANGED <<tabVars, file, pos, err, entVars, segVars, lxVars, fixVars, impVars>>

NextEnt == EntBundle \/ EntDone

SpecEnt == InitEnt /\ [][NextEnt]_vars

-----------------------------------------------------------------------------
(* MZ header: exe/mod.rs                                                   *)

E_MAGIC == 23117
E_CIGAM == 19802

MzHeaderSize == 64

\* MzHeader::read with the cursor at p.  A short file fails read_exact and
\* leaves the cursor at the end of the file.
MzHeader_read(f, p) ==
    IF ~CanRead(f, p, MzHeaderSize)
    THEN [st |-> "err", pos |-> Len(f), err |-> EofError]
    ELSE IF U16At(f, p) \notin {E_CIGAM, E_MAGIC}
    THEN [st |-> "err", pos |-> p + MzHeaderSize,
          err |-> [kind |-> "InvalidData", what |-> "Invalid DOS header"]]
    ELSE [st |-> "ok", pos |-> p + MzHeaderSize, err |-> NoErr,
          e_lfanew |-> U32At(f, p + 60)]

-----------------------------------------------------------------------------
(* LE/LX header: exe386/header.rs                                          *)

LX_MAGIC == 22604
LX_CIGAM == 19544
LE_MAGIC == 17756
LE_CIGAM == 19525

LxHeaderSize == 184

\* the decoded fields of the header at offset o
LinearExecutableHeader_fields(f, o) ==
    [e32_magic |-> U16At(f, o), e32_border |-> U8At(f, o + 2),
     e32_worder |-> U8At(f, o + 3), e32_mflags |-> U32At(f, o + 16),
     e32_mpages |-> U32At(f, o + 20)]

invalid_magic(h) == h.e32_magic \in {LX_MAGIC, LX_CIGAM, LE_MAGIC, LE_CIGAM}

le_byte_ordering(h) == h.e32_border = 0 /\ h.e32_worder = 0

\* LinearExecutableHeader::read with the cursor at p.  `aligned` tells
\* whether the 184-byte stack buffer happens to meet the alignment of the
\* header struct that bytemuck::try_from_bytes asks for.
LinearExecutableHeader_read(f, p, aligned) ==
    IF ~CanRead(f, p, LxHeaderSize)
    THEN [st |-> "err", pos |-> Len(f), err |-> EofError, header |-> <<>>]
    ELSE LET h == LinearExecutableHeader_fields(f, p)
             fail(what) == [st |-> "err", pos |-> p + LxHeaderSize,
                            err |-> [kind |-> "InvalidData", what |-> what],
                            header |-> <<>>]
         IN  IF ~aligned THEN fail("Unable to cast bytes into header")
             ELSE IF invalid_magic(h) THEN fail("Invalid magic")
             ELSE IF ~le_byte_ordering(h)
             THEN fail("Only Little endian linked modules are supported!")
             ELSE [st |-> "ok", pos |-> p + LxHeaderSize, err |-> NoErr, header |-> h]

-----------------------------------------------------------------------------
(* LinearExecutableLayout::get up to the header: exe386/mod.rs             *)

\* define_base_offset with the cursor at p
define_base_offset(f, p, aligned) ==
    LET mz == MzHeader_read(f, p)
    IN  IF mz.st = "ok" THEN [base |-> mz.e_lfanew, pos |-> mz.pos]
        ELSE LET lx == LinearExecutableHeader_read(f, mz.pos, aligned)
             IN  [base |-> IF lx.st = "ok" THEN 0 ELSE None, pos |-> lx.pos]

\* bounds of the header images
MaxStubGap == 8
MaxTrail == 64

U32Bytes(v) == U16Bytes(v % 65536) \o U16Bytes(v \div 65536)

MzImage(magic, lfanew) == U16Bytes(magic) \o Zeros(58) \o U32Bytes(lfanew)

LxHeaderImage(magic, border, worder) ==
    U16Bytes(magic) \o <<border, worder>> \o Zeros(LxHeaderSize - 4)

\* the bytes "LE" and "LX" read as a little-endian u16
TrueLeMagic == 69 * 256 + 76
TrueLxMagic == 88 * 256 + 76

LxMagicSet == {TrueLxMagic, TrueLeMagic, LE_MAGIC, LX_CIGAM, LE_CIGAM, 17742, 0}

\* what precedes the LE/LX header: nothing, or an MZ header and its stub
LxPrefixImages ==
    {<<>>}
    \cup {MzImage(m, l) \o Zeros(MaxStubGap) :
              m \in {E_MAGIC, E_CIGAM}, l \in {0, MzHeaderSize + MaxStubGap}}

InitLx ==
    /\ IdleTab
    /\ \E pre \in LxPrefixImages, m \in LxMagicSet, bo \in {0, 1}, wo \in {0, 1},
          t \in {0, MaxTrail} :
           file = pre \o LxHeaderImage(m, bo, wo) \o Zeros(t)
    /\ pos = 0
    /\ pc = "base"
    /\ err = NoErr
    /\ base_offset = -1
    /\ header = <<>>
    /\ IdleSeg
    /\ IdleEnt
    /\ IdleFix
    /\ IdleImp

\* `let base_offset = match Self::define_base_offset(&mut reader)`
LxDefineBase ==
    /\ pc = "base"
    /\ \E aligned \in BOOLEAN :
           LET r == define_base_offset(file, pos, aligned)
           IN  /\ pos' = r.pos
               /\ base_offset' = r.base
               /\ IF r.base = None
                  THEN /\ pc' = "err"
                       /\ err' = [kind |-> "InvalidInput",
                                   what |-> "Could not determine base offset"]
                  ELSE /\ pc' = "header"
                       /\ err' = err
    /\ UNCHANGED <<tabVars, file, header, segVars, entVars, fixVars, impVars>>

\* `reader.seek(SeekFrom::Start(base_offset))?; LinearExecutableHeader::read`
LxReadHeader ==
    /\ pc = "header"
    /\ \E aligned \in BOOLEAN :
           LET r == LinearExecutableHeader_read(file, base_offset, aligned)
           IN  /\ pos' = r.pos
               /\ header' = r.header
               /\ err' = r.err
               /\ pc' = r.st
    /\ UNCHANGED <<tabVars, file, base_offset, segVars, entVars, fixVars, impVars>>

NextLx == LxDefineBase \/ LxReadHeader

SpecLx == InitLx /\ [][NextLx]_vars

-----------------------------------------------------------------------------
(* LE/LX fixup records: exe386/frectab.rs                                  *)

FixupFlags_from_bytes(source, target_flags) ==
    [has_source_list |-> BitSet(source, 32),
     has_additive |-> BitSet(target_flags, 4),
     is_32bit_target |-> BitSet(target_flags, 16),
     is_32bit_additive |-> BitSet(target_flags, 32),
     is_16bit_object_module |-> BitSet(target_flags, 64),
     is_8bit_ordinal |-> BitSet(target_flags, 128),
     target_type |-> target_flags % 4,
     source_type |-> source % 16]

UIntAt(f, o, n) == IF n = 1 THEN U8At(f, o) ELSE IF n = 2 THEN U16At(f, o) ELSE U32At(f, o)

\* read_exact of an n-byte little-endian integer with the cursor at o
ReadUInt(f, o, n) ==
    IF CanRead(f, o, n) THEN [ok |-> TRUE, end |-> o + n, v |-> UIntAt(f, o, n)]
    ELSE [ok |-> FALSE, end |-> Len(f), v |-> 0]

\* a field that is not in the record
Absent(o) == [ok |-> TRUE, end |-> o, v |-> 0]

\* the u8 or u16 that opens every target
ReadObjectModule(f, o, flags) ==
    ReadUInt(f, o, IF flags.is_16bit_object_module THEN 2 ELSE 1)

\* read_internal_target that always reads a target offset
read_internal_target_AlwaysOffset(f, o, flags) ==
    LET n == ReadObjectModule(f, o, flags)
        t == IF n.ok THEN ReadUInt(f, n.end, IF flags.is_32bit_target THEN 4 ELSE 2)
             ELSE n
    IN  [ok |-> n.ok /\ t.ok, end |-> t.end,
         target |-> [kind |-> "Internal", object_number |-> n.v,
                     target_offset |-> <<t.v>>]]

read_internal_target(f, o, flags) ==
    LET n == ReadObjectModule(f, o, flags)
        has == flags.source_type # 2
        t == IF ~n.ok THEN n
             ELSE IF has THEN ReadUInt(f, n.end, IF flags.is_32bit_target THEN 4 ELSE 2)
             ELSE Absent(n.end)
    IN  [ok |-> n.ok /\ t.ok, end |-> t.end,
         target |-> [kind |-> "Internal", object_number |-> n.v,
                     target_offset |-> IF has THEN <<t.v>> ELSE <<>>]]

read_imported_ordinal_target(f, o, flags) ==
    LET n == ReadObjectModule(f, o, flags)
        t == IF ~n.ok THEN n
             ELSE ReadUInt(f, n.end, IF flags.is_8bit_ordinal THEN 1
                                     ELSE IF flags.is_32bit_target THEN 4 ELSE 2)
    IN  [ok |-> n.ok /\ t.ok, end |-> t.end,
         target |-> [kind |-> "ImportedOrdinal", module_ordinal |-> n.v,
                     import_ordinal |-> t.v]]

read_imported_name_target(f, o, flags) ==
    LET n == ReadObjectModule(f, o, flags)
        t == IF ~n.ok THEN n
             ELSE ReadUInt(f, n.end, IF flags.is_32bit_target THEN 4 ELSE 2)
    IN  [ok |-> n.ok /\ t.ok, end |-> t.end,
         target |-> [kind |-> "ImportedName", module_ordinal |-> n.v,
                     procedure_name_offset |-> t.v]]

read_entry_table_target(f, o, flags) ==
    LET n == ReadObjectModule(f, o, flags)
    IN  [ok |-> n.ok, end |-> n.end,
         target |-> [kind |-> "FixupViaEntryTable", entry_number |-> n.v]]

read_target_data(f, o, flags) ==
    CASE flags.target_type = 0 -> read_internal_target(f, o, flags)
      [] flags.target_type = 1 -> read_imported_ordinal_target(f, o, flags)
      [] flags.target_type = 2 -> read_imported_name_target(f, o, flags)
      [] OTHER -> read_entry_table_target(f, o, flags)

\* the `count` u16 source offsets read from o on
ReadSourceList(f, o, count) ==
    LET fit == (Len(f) - o) \div 2
    IN  IF fit < count THEN [ok |-> FALSE, end |-> Len(f), v |-> <<>>]
        ELSE [ok |-> TRUE, end |-> o + 2 * count,
              v |-> [k \in 1..count |-> U16At(f, o + 2 * (k - 1))]]

\* read_single_fixup_record with the cursor at p
read_single_fixup_record(f, p) ==
    LET fail(e) == [st |-> "err", pos |-> e, record |-> <<>>]
        s == ReadUInt(f, p, 1)
    IN  IF ~s.ok THEN fail(s.end) ELSE
        LET t == ReadUInt(f, s.end, 1)
        IN  IF ~t.ok THEN fail(t.end) ELSE
        LET flags == FixupFlags_from_bytes(s.v, t.v)
            c == ReadUInt(f, t.end, IF flags.has_source_list THEN 1 ELSE 2)
        IN  IF ~c.ok THEN fail(c.end) ELSE
        LET tg == read_target_data(f, c.end, flags)
        IN  IF ~tg.ok THEN fail(tg.end) ELSE
        LET a == IF flags.has_additive
                 THEN ReadUInt(f, tg.end, IF flags.is_32bit_additive THEN 4 ELSE 2)
                 ELSE Absent(tg.end)
        IN  IF ~a.ok THEN fail(a.end) ELSE
        LET l == IF flags.has_source_list THEN ReadSourceList(f, a.end, c.v)
                 ELSE [ok |-> TRUE, end |-> a.end, v |-> <<>>]
        IN  IF ~l.ok THEN fail(l.end) ELSE
        [st |-> "ok", pos |-> l.end,
         record |-> [source |-> s.v, target_flags |-> t.v,
                     source_offset_or_count |-> c.v,
                     target_data |-> tg.target,
                     additive_value |-> IF flags.has_additive THEN <<a.v>> ELSE <<>>,
                     source_offset_list |-> IF flags.has_source_list THEN <<l.v>> ELSE <<>>]]

\* bounds of the fixup record streams
MaxList == 3
MaxStream == 2
MaxPages == 2
FixPad == 3

\* fixup_record_table_offset handed to FixupRecordsTable::read
FixRecOffset == header.e32_frectab + base_offset

\* FixupPageTable::read that keeps the end marker among the page offsets
FixupPageTable_read_NoEnd(f, fpagetab, h) ==
    IF h.e32_fpagetab = 0
    THEN [st |-> "ok", pos |-> fpagetab,
          table |-> [page_offsets |-> <<>>, end_of_fixup_records |-> 0]]
    ELSE IF ~CanRead(f, fpagetab, 4 * (h.e32_mpages + 1))
    THEN [st |-> "err", pos |-> Len(f),
          table |-> [page_offsets |-> <<>>, end_of_fixup_records |-> 0]]
    ELSE [st |-> "ok", pos |-> fpagetab + 4 * (h.e32_mpages + 1),
          table |-> [page_offsets |-> [k \in 1..(h.e32_mpages + 1) |->
                                          U32At(f, fpagetab + 4 * (k - 1))],
                     end_of_fixup_records |-> 0]]

\* FixupPageTable::read: e32_mpages + 1 u32 from fpagetab, the last popped
FixupPageTable_read(f, fpagetab, h) ==
    LET entry_count == h.e32_mpages + 1
        none == [page_offsets |-> <<>>, end_of_fixup_records |-> 0]
    IN  IF h.e32_fpagetab = 0 THEN [st |-> "ok", pos |-> fpagetab, table |-> none]
        ELSE IF ~CanRead(f, fpagetab, 4 * entry_count)
        THEN [st |-> "err", pos |-> Len(f), table |-> none]
        ELSE LET all == [k \in 1..entry_count |-> U32At(f, fpagetab + 4 * (k - 1))]
             IN  [st |-> "ok", pos |-> fpagetab + 4 * entry_count,
                  table |-> [page_offsets |-> SubSeq(all, 1, entry_count - 1),
                             end_of_fixup_records |-> all[entry_count]]]

\* field values of the generated records
ImgSite == 64
ImgObject == 1
ImgTarget == 4660
ImgOrdinal8 == 7
ImgAdditive == 1286

LeBytes(v, n) == [k \in 1..n |-> IF k = 1 THEN v % 256 ELSE IF k = 2 THEN (v \div 256) % 256 ELSE 0]

\* bytes of one record laid out field by field
RecordImage(src, tgt, n) ==
    LET list == BitSet(src, 32)
        w == IF BitSet(tgt, 64) THEN 2 ELSE 1
        tw == IF BitSet(tgt, 16) THEN 4 ELSE 2
        second == CASE tgt % 4 = 0 -> IF src % 16 = 2 THEN <<>> ELSE LeBytes(ImgTarget, tw)
                    [] tgt % 4 = 1 -> IF BitSet(tgt, 128) THEN <<ImgOrdinal8>>
                                      ELSE LeBytes(ImgTarget, tw)
                    [] tgt % 4 = 2 -> LeBytes(ImgTarget, tw)
                    [] OTHER -> <<>>
        add == IF BitSet(tgt, 4) THEN LeBytes(ImgAdditive, IF BitSet(tgt, 32) THEN 4 ELSE 2)
               ELSE <<>>
        offs == IF list THEN Flatten([k \in 1..n |-> LeBytes(16 * k, 2)]) ELSE <<>>
    IN  <<src, tgt>> \o (IF list THEN <<n>> ELSE LeBytes(ImgSite, 2))
        \o LeBytes(ImgObject, w) \o second \o add \o offs

SourceSet == {0, 2, 7, 32, 34, 39}
TargetFlagSet == {t \in 0..255 : ~BitSet(t, 8)}

\* every flag pair, one record per stream
SingleRecordImages ==
    {RecordImage(src, tgt, n) : src \in {x \in SourceSet : ~BitSet(x, 32)},
                                tgt \in TargetFlagSet, n \in {0}}
    \cup {RecordImage(src, tgt, n) : src \in {x \in SourceSet : BitSet(x, 32)},
                                     tgt \in TargetFlagSet, n \in 0..MaxList}

\* the records of the multi-page streams
SmallRecordImages ==
    {RecordImage(7, 0, 0), RecordImage(2, 3, 0), RecordImage(0, 2, 0), RecordImage(34, 0, 1)}

StreamImages ==
    {Flatten(q) : q \in UNION {[1..n -> SmallRecordImages] : n \in 0..MaxStream}}

PageOffsetSet == {0, 3, 5, 7, 10, 12, 14}

PageTables ==
    {[page_offsets |-> po, end_of_fixup_records |-> e] :
        po \in UNION {[1..n -> PageOffsetSet] : n \in 0..MaxPages}, e \in PageOffsetSet}

\* a page count no plausible image has: more than 2^20 pages
HugePageCount == 1048577

\* the fixup page table as it lies in the file
PageTableImage(t) ==
    Flatten([k \in 1..Len(t.page_offsets) |-> U32Bytes(t.page_offsets[k])])
    \o U32Bytes(t.end_of_fixup_records)

\* the file and header of a stream with its page table in front of it
FixLayout(t, stream) ==
    /\ file = Zeros(FixPad) \o PageTableImage(t) \o stream
    /\ header = [e32_fpagetab |-> FixPad, e32_mpages |-> Len(t.page_offsets),
                 e32_frectab |-> FixPad + Len(PageTableImage(t))]

InitFix ==
    /\ IdleTab
    /\ \/ \E img \in SingleRecordImages, cut \in {0, 1} :
            FixLayout([page_offsets |-> <<0>>, end_of_fixup_records |-> Len(img)],
                      SubSeq(img, 1, Len(img) - cut))
       \/ \E img \in StreamImages, t \in PageTables : FixLayout(t, img)
       \/ \E img \in StreamImages, n \in {0, MaxPages} :
            /\ file = Zeros(FixPad) \o img
            /\ header = [e32_fpagetab |-> 0, e32_mpages |-> n, e32_frectab |-> FixPad]
       \/ \E t \in PageTables, cut \in 1..4 :
            /\ file = Zeros(FixPad)
                          \o SubSeq(PageTableImage(t), 1, Len(PageTableImage(t)) - cut)
            /\ header = [e32_fpagetab |-> FixPad, e32_mpages |-> Len(t.page_offsets),
                         e32_frectab |-> FixPad + Len(PageTableImage(t))]
       \/ \E img \in SmallRecordImages, e \in PageOffsetSet :
            LET t == [page_offsets |-> <<0>>, end_of_fixup_records |-> e]
            IN  /\ file = Zeros(FixPad) \o PageTableImage(t) \o img
                /\ header = [e32_fpagetab |-> FixPad, e32_mpages |-> HugePageCount,
                             e32_frectab |-> FixPad + Len(PageTableImage(t))]
    /\ base_offset = 0
    /\ fixup_page_table = [page_offsets |-> <<>>, end_of_fixup_records |-> 0]
    /\ pos = 0
    /\ pc = "pagetab"
    /\ err = NoErr
    /\ logical_page = 0
    /\ records = <<>>
    /\ IdleSeg
    /\ IdleEnt
    /\ IdleImp

\* `FixupPageTable::read(&mut reader, offset(header.e32_fpagetab), &header)?`
FixPageTable ==
    /\ pc = "pagetab"
    /\ LET r == FixupPageTable_read(file, header.e32_fpagetab + base_offset, header)
       IN  /\ pos' = r.pos
           /\ fixup_page_table' = r.table
           /\ pc' = IF r.st = "ok" THEN "page" ELSE "err"
           /\ err' = IF r.st = "ok" THEN err ELSE EofError
    /\ UNCHANGED <<tabVars, file, logical_page, records, segVars, entVars, lxVars, impVars>>

\* bound of the `while` of the page being decoded
next_offset ==
    IF logical_page + 1 < Len(fixup_page_table.page_offsets)
    THEN fixup_page_table.page_offsets[logical_page + 2]
    ELSE fixup_page_table.end_of_fixup_records

\* head of one `for` iteration: seek to the page's first record
FixSeekPage ==
    /\ pc = "page"
    /\ logical_page < Len(fixup_page_table.page_offsets)
    /\ pos' = FixRecOffset + fixup_page_table.page_offsets[logical_page + 1]
    /\ pc' = "records"
    /\ UNCHANGED <<tabVars, file, err, segVars, entVars, lxVars, impVars, fixVars>>

\* one iteration of the `while`: read_single_fixup_record and push
FixRecord ==
    /\ pc = "records"
    /\ pos < FixRecOffset + next_offset
    /\ LET r == read_single_fixup_record(file, pos)
       IN  IF r.st = "ok"
           THEN /\ records' = Append(records, [rec |-> r.record, at |-> pos,
                                               end |-> r.pos, page |-> logical_page])
                /\ pos' = r.pos
                /\ UNCHANGED <<pc, err>>
           ELSE /\ pc' = "err"
                /\ err' = EofError
                /\ pos' = r.pos
                /\ UNCHANGED records
    /\ UNCHANGED <<tabVars, file, fixup_page_table, logical_page, segVars, entVars, lxVars, impVars>>

\* the `while` condition fails: next page
FixPageEnd ==
    /\ pc = "records"
    /\ pos >= FixRecOffset + next_offset
    /\ logical_page' = logical_page + 1
    /\ pc' = "page"
    /\ UNCHANGED <<tabVars, file, pos, err, fixup_page_table, records, segVars, entVars, lxVars, impVars>>

\* the `for` is exhausted: Ok(Self { records })
FixDone ==
    /\ pc = "page"
    /\ logical_page = Len(fixup_page_table.page_offsets)
    /\ pc' = "ok"
    /\ UNCHANGED <<tabVars, file, pos, err, segVars, entVars, lxVars, impVars, fixVars>>

NextFix == FixPageTable \/ FixSeekPage \/ FixRecord \/ FixPageEnd \/ FixDone

SpecFix == InitFix /\ [][NextFix]_vars

-----------------------------------------------------------------------------
(* LE/LX import resolver: exe386/imptab.rs                                 *)

PascalString_new(len, bytes) == [length |-> len, string |-> bytes]

PascalString_empty == [length |-> 0, string |-> <<>>]

\* the `loop` of read_modules with the cursor at o
RECURSIVE ModulesLoop(_, _, _)
ModulesLoop(f, o, acc) ==
    IF ~CanRead(f, o, 1) THEN [st |-> "err", modules |-> acc]
    ELSE LET len == U8At(f, o)
         IN  IF len = 0 THEN [st |-> "ok", modules |-> acc]
             ELSE IF ~CanRead(f, o + 1, len) THEN [st |-> "err", modules |-> acc]
             ELSE ModulesLoop(f, o + 1 + len,
                      Append(acc, PascalString_new(len, SubSeq(f, o + 2, o + 1 + len))))

read_modules(f, p, imp_mod_offset) ==
    IF imp_mod_offset = 0 THEN [st |-> "ok", modules |-> <<>>, pos |-> p]
    ELSE LET r == ModulesLoop(f, imp_mod_offset, <<>>)
         IN  [st |-> r.st, modules |-> r.modules,
              pos |-> IF r.st = "ok" THEN p ELSE Len(f)]

read_pascal_string(f, o) ==
    IF ~CanRead(f, o, 1) THEN [st |-> "err", s |-> PascalString_empty]
    ELSE LET len == U8At(f, o)
         IN  IF len = 0 THEN [st |-> "ok", s |-> PascalString_empty]
             ELSE IF ~CanRead(f, o + 1, len) THEN [st |-> "err", s |-> PascalString_empty]
             ELSE [st |-> "ok", s |-> PascalString_new(len, SubSeq(f, o + 2, o + 1 + len))]

\* the io::Error of process_imported_ordinal for an index without a module
InvalidIndexError(module_index) ==
    [kind |-> "InvalidData", what |-> "Module at index is invalid",
     module_index |-> module_index]

\* `wrap`: the build lets `module_ordinal - 1` wrap instead of panicking
process_imported_name(f, p, name_target, mods, imp_proc_offset, wrap) ==
    IF name_target.module_ordinal = 0 /\ ~wrap
    THEN [st |-> "panic", pos |-> p]
    ELSE LET module_index == (name_target.module_ordinal - 1) % (U16Max + 1)
         IN  IF module_index >= Len(mods) THEN [st |-> "panic", pos |-> p]
             ELSE LET s == read_pascal_string(f, imp_proc_offset
                                                   + name_target.procedure_name_offset)
                  IN  IF s.st = "err"
                      THEN [st |-> "err", err |-> EofError, pos |-> Len(f)]
                      ELSE [st |-> "ok", pos |-> p,
                            import |-> [kind |-> "ImportName",
                                        module_index |-> module_index,
                                        module_name |-> mods[module_index + 1],
                                        import_name_offset |->
                                            name_target.procedure_name_offset,
                                        import_name |-> s.s]]

process_imported_ordinal(p, ordinal_target, mods, wrap) ==
    IF ordinal_target.module_ordinal = 0 /\ ~wrap
    THEN [st |-> "panic", pos |-> p]
    ELSE LET module_index == (ordinal_target.module_ordinal - 1) % (U16Max + 1)
         IN  IF module_index >= Len(mods)
             THEN [st |-> "err", err |-> InvalidIndexError(module_index), pos |-> p]
             ELSE [st |-> "ok", pos |-> p,
                   import |-> [kind |-> "ImportOrdinal",
                               module_index |-> module_index,
                               module_name |-> mods[module_index + 1],
                               import_ordinal |-> ordinal_target.import_ordinal]]

\* bounds of the import inputs
MaxModules == 2
MaxImpRecords == 2
MaxOrdinal == 3
ImpPad == 2

ModuleNameImages == {<<1, 65>>, <<2, 66, 67>>}

ModulePools == UNION {[1..n -> ModuleNameImages] : n \in 0..MaxModules}

\* import procedure name pools, with and without a leading empty name
ProcPoolImages == {<<0, 1, 70>>, <<1, 70>>, <<1, 70, 0>>, <<>>}

\* a fixup record as the record decoder returns it
FixupRecordOf(img) == read_single_fixup_record(img, 0).record

WithModule(rec, m) ==
    [rec EXCEPT !.target_data = [@ EXCEPT !.module_ordinal = m]]

ImportRecordSet ==
    {FixupRecordOf(RecordImage(7, 0, 0))}
    \cup {WithModule(FixupRecordOf(RecordImage(7, 129, 0)), m) : m \in 0..MaxOrdinal}
    \cup {[WithModule(FixupRecordOf(RecordImage(7, 2, 0)), m)
              EXCEPT !.target_data = [@ EXCEPT !.procedure_name_offset = o]] :
          m \in 0..MaxOrdinal, o \in {0, 1}}

InitImp ==
    /\ IdleTab
    /\ \E pool \in ModulePools, procs \in ProcPoolImages, zero \in BOOLEAN,
          recs \in UNION {[1..n -> ImportRecordSet] : n \in 0..MaxImpRecords} :
            /\ file = Zeros(ImpPad) \o Flatten(pool) \o procs
            /\ base_offset = 0
            /\ header = [e32_impmod |-> IF zero /\ pool = <<>> THEN 0 ELSE ImpPad,
                         e32_impmodcnt |-> Len(pool),
                         e32_impproc |-> ImpPad + Len(Flatten(pool))]
            /\ import_data = [imp_mod_offset |-> header.e32_impmod + base_offset,
                              imp_proc_offset |-> header.e32_impproc + base_offset,
                              fixup_records |-> recs]
    /\ pos = 0
    /\ pc = "modules"
    /\ err = NoErr
    /\ modules = <<>>
    /\ imports = <<>>
    /\ next_record = 0
    /\ IdleSeg
    /\ IdleEnt
    /\ IdleFix

\* let modules = Self::read_modules(reader, import_data.imp_mod_offset)?
ImpReadModules ==
    /\ pc = "modules"
    /\ LET r == read_modules(file, pos, import_data.imp_mod_offset)
       IN  /\ pos' = r.pos
           /\ IF r.st = "ok"
              THEN modules' = r.modules /\ pc' = "records" /\ UNCHANGED err
              ELSE pc' = "err" /\ err' = EofError /\ UNCHANGED modules
    /\ UNCHANGED <<tabVars, file, import_data, imports, next_record, segVars, entVars, lxVars, fixVars>>

\* one iteration of `for record in import_data.fixup_records`
ImpRecord ==
    /\ pc = "records"
    /\ next_record < Len(import_data.fixup_records)
    /\ LET t == import_data.fixup_records[next_record + 1].target_data
       IN  IF t.kind \notin {"ImportedName", "ImportedOrdinal"}
           THEN /\ next_record' = next_record + 1
                /\ UNCHANGED <<pos, pc, err, imports>>
           ELSE \E wrap \in BOOLEAN :
                LET r == IF t.kind = "ImportedName"
                         THEN process_imported_name(file, pos, t, modules,
                                                    import_data.imp_proc_offset, wrap)
                         ELSE process_imported_ordinal(pos, t, modules, wrap)
                IN  /\ pos' = r.pos
                    /\ CASE r.st = "ok" -> /\ imports' = Append(imports, r.import)
                                           /\ next_record' = next_record + 1
                                           /\ UNCHANGED <<pc, err>>
                         [] r.st = "err" -> /\ pc' = "err"
                                            /\ err' = r.err
                                            /\ UNCHANGED <<imports, next_record>>
                         [] OTHER -> /\ pc' = "panic"
                                     /\ UNCHANGED <<err, imports, next_record>>
    /\ UNCHANGED <<tabVars, file, import_data, modules, segVars, entVars, lxVars, fixVars>>

\* Ok(Self { imports })
ImpDone ==
    /\ pc = "records"
    /\ next_record = Len(import_data.fixup_records)
    /\ pc' = "ok"
    /\ UNCHANGED <<tabVars, file, pos, err, segVars, entVars, lxVars, fixVars, impVars>>

NextImp == ImpReadModules \/ ImpRecord \/ ImpDone

SpecImp == InitImp /\ [][NextImp]_vars

-----------------------------------------------------------------------------
(* NE layout, entry table then module references: exe286/mod.rs, modtab.rs *)

\* EntryTable::read as a whole: seek to e_enttab, loop until break
RECURSIVE EntryTable_loop(_, _, _, _, _, _)
EntryTable_loop(f, p, rem, ord, acc, wrap) ==
    IF rem = 0 THEN [st |-> "ok", pos |-> p, entries |-> acc, err |-> NoErr]
    ELSE LET r == EntryTable_step(f, p, rem, ord, wrap)
         IN  IF r.st = "run"
             THEN EntryTable_loop(f, r.pos, r.rem, r.ord, acc \o r.new, wrap)
             ELSE [st |-> r.st, pos |-> r.pos, entries |-> acc, err |-> r.err]

EntryTable_read(f, e_enttab, cb, wrap) == EntryTable_loop(f, e_enttab, cb, 1, <<>>, wrap)

\* ModuleReferencesTable::read with the cursor at p: cmod u16 from there
ModuleReferencesTable_read(f, p, e_modtab, cmod) ==
    LET fit == (Len(f) - p) \div 2
    IN  IF p > Len(f) \/ fit < cmod
        THEN [st |-> "err", pos |-> Len(f), m_offsets |-> <<>>]
        ELSE [st |-> "ok", pos |-> p + 2 * cmod,
              m_offsets |-> [k \in 1..cmod |-> U16At(f, p + 2 * (k - 1))]]

\* bounds of the NE layout images
NeLfanew == 2
NeGap == 4
MaxMod == 2

ModRefImages == UNION {[1..n -> {<<1, 0>>, <<4, 0>>}] : n \in 0..MaxMod}

NeEntImages ==
    {Flatten(bs) \o z : bs \in UNION {[1..n -> {<<1, 2, 1, 16, 0>>, <<2, 0>>}] : n \in 0..2},
                        z \in {<<>>, <<0, 0>>}}

\* offset(ptr) of NewExecutableLayout::get
NeOffset(ptr) == ptr + NeLfanew

InitNe ==
    /\ \E refs \in ModRefImages, ent \in NeEntImages, first \in BOOLEAN,
          tail \in {<<>>, <<9, 0, 9, 0>>} :
           LET m == Flatten(refs)
           IN  /\ file = Zeros(NeLfanew + NeGap)
                           \o (IF first THEN m \o ent ELSE ent \o m) \o tail
               /\ new_header =
                      [e_mod_tab |-> NeGap + (IF first THEN 0 ELSE Len(ent)),
                       e_cmod |-> Len(refs),
                       e_ent_tab |-> NeGap + (IF first THEN Len(m) ELSE 0),
                       e_cb_ent |-> Len(ent)]
    /\ pos = NeLfanew + NeGap
    /\ pc = "enttab"
    /\ err = NoErr
    /\ mod_tab = <<>>
    /\ entry_table = <<>>
    /\ object_pages = <<>>
    /\ directives = <<>>
    /\ cb_ent_tab = 0
    /\ bytes_remaining = 0
    /\ entries = <<>>
    /\ ordinal = 1
    /\ bundles = <<>>
    /\ IdleSeg
    /\ IdleLx
    /\ IdleFix
    /\ IdleImp

\* `EntryTable::read(&mut reader, offset(e_ent_tab), e_cb_ent)?`
NeEntryTable ==
    /\ pc = "enttab"
    /\ \E wrap \in BOOLEAN :
           LET r == EntryTable_read(file, NeOffset(new_header.e_ent_tab),
                                    new_header.e_cb_ent, wrap)
           IN  /\ pos' = r.pos
               /\ err' = r.err
               /\ entries' = r.entries
               /\ pc' = IF r.st = "ok" THEN "modtab" ELSE r.st
    /\ UNCHANGED <<file, cb_ent_tab, bytes_remaining, ordinal, bundles,
                   segVars, lxVars, fixVars, impVars, tabVars>>

\* `ModuleReferencesTable::read(&mut reader, offset(e_mod_tab), e_cmod)?`
NeModTab ==
    /\ pc = "modtab"
    /\ LET r == ModuleReferencesTable_read(file, pos, NeOffset(new_header.e_mod_tab),
                                           new_header.e_cmod)
       IN  /\ pos' = r.pos
           /\ mod_tab' = r.m_offsets
           /\ pc' = r.st
           /\ err' = IF r.st = "ok" THEN err ELSE EofError
    /\ UNCHANGED <<file, new_header, entry_table, object_pages, directives,
                   entVars, segVars, lxVars, fixVars, impVars>>

NextNe == NeEntryTable \/ NeModTab

SpecNe == InitNe /\ [][NextNe]_vars

-----------------------------------------------------------------------------
(* LE/LX entry table: exe386/enttab.rs                                     *)

\* BundleType::from
BundleType_from(value) ==
    LET t == value % 128
    IN  CASE t = 0 -> [kind |-> "Unused"]
          [] t = 1 -> [kind |-> "Entry16"]
          [] t = 2 -> [kind |-> "Entry286CallGate"]
          [] t = 3 -> [kind |-> "Entry32"]
          [] t = 4 -> [kind |-> "Forwarder"]
          [] OTHER -> [kind |-> "Unknown", n |-> t]

Entry16_read(f, p) ==
    [kind |-> "Entry16", flags |-> U8At(f, p), offset |-> U16At(f, p + 1)]

Entry32_read(f, p) ==
    [kind |-> "Entry32", flags |-> U8At(f, p), offset |-> U32At(f, p + 1)]

EntryCallGate_read(f, p) ==
    [kind |-> "EntryCallGate", flags |-> U8At(f, p), offset |-> U16At(f, p + 1),
     callgate_selector |-> U16At(f, p + 3)]

\* EntryForwarder::read: a reserved u16, then flags, module ordinal, offset
EntryForwarder_read(f, p) ==
    [kind |-> "EntryForwarder", flags |-> U8At(f, p + 2),
     module_ordinal |-> U16At(f, p + 3), offset_or_ordinal |-> U32At(f, p + 5)]

\* bytes one `for _ in 0..count` iteration reads for a bundle type
LeEntryBytes(bundle_type) ==
    CASE bundle_type.kind = "Unused" -> 0
      [] bundle_type.kind = "Entry16" -> 3
      [] bundle_type.kind = "Entry286CallGate" -> 5
      [] bundle_type.kind = "Entry32" -> 5
      [] OTHER -> 9

LeEntry_read(f, p, bundle_type) ==
    CASE bundle_type.kind = "Unused" -> [kind |-> "Unused"]
      [] bundle_type.kind = "Entry16" -> Entry16_read(f, p)
      [] bundle_type.kind = "Entry286CallGate" -> EntryCallGate_read(f, p)
      [] bundle_type.kind = "Entry32" -> Entry32_read(f, p)
      [] OTHER -> EntryForwarder_read(f, p)

UnknownBundleError(n) ==
    [kind |-> "InvalidData", what |-> "Unknown bundle type", bundle_type |-> n]

\* One iteration of the `loop` of EntryTable::read with the cursor at p.
\* st: "run" (bundle pushed), "ok" (break), "err".
LeEntryTable_step(f, p) ==
    LET fail(e) == [st |-> "err", pos |-> Len(f), err |-> e, new |-> <<>>]
    IN  IF ~CanRead(f, p, 1) THEN fail(EofError)
        ELSE LET count == U8At(f, p)
        IN  IF count = 0 THEN [st |-> "ok", pos |-> p + 1, err |-> NoErr, new |-> <<>>]
        ELSE IF ~CanRead(f, p + 1, 1) THEN fail(EofError)
        ELSE LET bundle_type == BundleType_from(U8At(f, p + 1))
                 has_object == bundle_type.kind \notin {"Unused", "Forwarder"}
                 q == IF has_object THEN p + 4 ELSE p + 2
        IN  IF has_object /\ ~CanRead(f, p + 2, 2) THEN fail(EofError)
        ELSE IF bundle_type.kind = "Unknown"
        THEN [st |-> "err", pos |-> q, err |-> UnknownBundleError(bundle_type.n),
              new |-> <<>>]
        ELSE LET size == LeEntryBytes(bundle_type)
        IN  IF ~CanRead(f, q, size * count) THEN fail(EofError)
        ELSE [st |-> "run", pos |-> q + size * count, err |-> NoErr,
              new |-> <<[count |-> count, bundle_type |-> bundle_type,
                         object |-> IF has_object THEN U16At(f, p + 2) ELSE 0,
                         entries |-> [k \in 1..count |->
                                         LeEntry_read(f, q + size * (k - 1), bundle_type)],
                         at |-> p, end |-> q + size * count]>>]

\* bounds of the LE/LX entry table images
MaxLeBundles == 2
MaxLeCount == 2
LeEntPad == 1

\* the bytes of entry k of a bundle of type t
LeEntryImage(t, k) ==
    CASE t % 128 = 1 -> <<k, 16, 0>>
      [] t % 128 = 2 -> <<k, 16, 0, 8, 0>>
      [] t % 128 = 3 -> <<k, 16, 0, 1, 0>>
      [] t % 128 = 4 -> <<k, 2, 0, 32, 0, 0, 0>>
      [] OTHER -> <<>>

\* a bundle laid out as the format has it: header, object or reserved
\* word, entries
LeBundleImage(t, n) ==
    <<n, t>> \o (IF t % 128 = 0 THEN <<>> ELSE IF t % 128 = 4 THEN <<0, 0>> ELSE <<3, 0>>)
    \o Flatten([k \in 1..n |-> LeEntryImage(t, k)])

LeBundleImages == {LeBundleImage(t, n) : t \in {0, 1, 2, 3, 4, 5}, n \in 1..MaxLeCount}

\* a bundle whose type byte has the parameter typing bit 0x80
LeTypedBundleImages == {LeBundleImage(t, n) : t \in {131}, n \in 1..MaxLeCount}

LeTableImages ==
    {Flatten(hd \o bs) : hd \in {<<>>} \cup {<<b>> : b \in LeTypedBundleImages},
                         bs \in UNION {[1..n -> LeBundleImages] : n \in 0..MaxLeBundles}}

InitLeEnt ==
    /\ \E img \in LeTableImages, tail \in {<<0>>, <<>>, <<0, 1>>} :
           file = Zeros(LeEntPad) \o img \o tail
    /\ pos = LeEntPad
    /\ pc = "bundle"
    /\ err = NoErr
    /\ entry_table = <<>>
    /\ new_header = <<>>
    /\ mod_tab = <<>>
    /\ object_pages = <<>>
    /\ directives = <<>>
    /\ IdleSeg
    /\ IdleEnt
    /\ IdleLx
    /\ IdleFix
    /\ IdleImp

\* one iteration of the `loop`
LeEntBundle ==
    /\ pc = "bundle"
    /\ LET r == LeEntryTable_step(file, pos)
       IN  /\ pos' = r.pos
           /\ err' = r.err
           /\ entry_table' = entry_table \o r.new
           /\ pc' = IF r.st = "run" THEN "bundle" ELSE r.st
    /\ UNCHANGED <<file, new_header, mod_tab, object_pages, directives,
                   segVars, entVars, lxVars, fixVars, impVars>>

NextLeEnt == LeEntBundle

SpecLeEnt == InitLeEnt /\ [][NextLeEnt]_vars

-----------------------------------------------------------------------------
(* LE/LX object page table: exe386/objpagetab.rs                           *)

LXObjectPageHeader_read(f, p) ==
    [kind |-> "LXPageFormat", page_offset |-> U32At(f, p),
     data_size |-> U16At(f, p + 4), flags |-> U16At(f, p + 6)]

\* the count the `match magic` of ObjectPagesTable::read hands to
\* fill_lx_pages; None when no arm reads pages
LxPagesToFill(pages_count, pages_shift, magic) ==
    IF magic \in {LX_CIGAM, LX_MAGIC} THEN pages_shift ELSE None

\* bounds of the object page table images
MaxPageEntries == 3
PagePad == 2

PageShiftSet == {0, 1, 2, 12}

PageEntryImages == {<<1, 0, 0, 0, 16, 0, 0, 0>>, <<2, 0, 0, 0, 0, 0, 3, 0>>}

InitPages ==
    /\ \E es \in UNION {[1..n -> PageEntryImages] : n \in 0..MaxPageEntries} :
           file = Zeros(PagePad) \o Flatten(es)
    /\ \E n \in 0..MaxPageEntries, sh \in PageShiftSet,
          m \in {LX_MAGIC, LX_CIGAM, LE_MAGIC, LE_CIGAM, TrueLeMagic} :
           header = [e32_mpages |-> n, e32_pageshift_or_lastpage |-> sh, e32_magic |-> m]
    /\ base_offset = 0
    /\ pos = PagePad
    /\ pc = "match"
    /\ err = NoErr
    /\ object_pages = <<>>
    /\ new_header = <<>>
    /\ mod_tab = <<>>
    /\ entry_table = <<>>
    /\ directives = <<>>
    /\ IdleSeg
    /\ IdleEnt
    /\ IdleFix
    /\ IdleImp

\* `match magic`: the LX arms start the fill loop, the LE arms read
\* nothing, any other magic is unreachable!()
PagesMatch ==
    /\ pc = "match"
    /\ pc' = IF header.e32_magic \in {LX_CIGAM, LX_MAGIC} THEN "fill"
             ELSE IF header.e32_magic \in {LE_CIGAM, LE_MAGIC} THEN "ok"
             ELSE "panic"
    /\ UNCHANGED <<tabVars, file, pos, err, segVars, entVars, lxVars, fixVars, impVars>>

\* one iteration of the `for` of fill_lx_pages: read(..).unwrap() and push
PagesFill ==
    /\ pc = "fill"
    /\ Len(object_pages) < LxPagesToFill(header.e32_mpages,
                                         header.e32_pageshift_or_lastpage,
                                         header.e32_magic)
    /\ IF CanRead(file, pos, 8)
       THEN /\ object_pages' = Append(object_pages, LXObjectPageHeader_read(file, pos))
            /\ pos' = pos + 8
            /\ pc' = pc
       ELSE /\ pc' = "panic"
            /\ pos' = Len(file)
            /\ UNCHANGED object_pages
    /\ UNCHANGED <<file, err, new_header, mod_tab, entry_table, directives,
                   segVars, entVars, lxVars, fixVars, impVars>>

\* the `for` is exhausted: Ok(Self { pages })
PagesDone ==
    /\ pc = "fill"
    /\ Len(object_pages) = LxPagesToFill(header.e32_mpages,
                                         header.e32_pageshift_or_lastpage,
                                         header.e32_magic)
    /\ pc' = "ok"
    /\ UNCHANGED <<tabVars, file, pos, err, segVars, entVars, lxVars, fixVars, impVars>>

NextPages == PagesMatch \/ PagesFill \/ PagesDone

SpecPages == InitPages /\ [][NextPages]_vars

-----------------------------------------------------------------------------
(* LE/LX module directives: exe386/dirtab.rs                               *)

DirectiveType_from(value) ==
    CASE value = 32769 -> [kind |-> "VerifyRecord"]
      [] value = 2 -> [kind |-> "LanguageInfo"]
      [] value = 3 -> [kind |-> "CoprocessorRequired"]
      [] value = 4 -> [kind |-> "ThreadStateInit"]
      [] OTHER -> [kind |-> "Unknown", n |-> value]

ModuleDirectiveRecord_at(f, p) ==
    [directive_number |-> U16At(f, p), data_length |-> U16At(f, p + 2),
     data_offset |-> U32At(f, p + 4)]

\* where the data of a directive record is read from
DirectiveDataOffset(entry, h, e_lfanew) ==
    IF BitSet(entry.directive_number, 32768)
    THEN h.e32_magic + entry.data_offset
    ELSE entry.data_offset

\* an iteration that leaves the cursor after the data it read
ModuleDirectivesTable_step_NoRestore(f, p, h, e_lfanew) ==
    IF ~CanRead(f, p, 8) THEN [st |-> "err", pos |-> Len(f), new |-> <<>>]
    ELSE LET entry == ModuleDirectiveRecord_at(f, p)
             data_offset == DirectiveDataOffset(entry, h, e_lfanew)
         IN  IF entry.data_length > 0 /\ ~CanRead(f, data_offset, entry.data_length)
             THEN [st |-> "err", pos |-> IF data_offset > Len(f) THEN data_offset ELSE Len(f),
                   new |-> <<>>]
             ELSE [st |-> "run", pos |-> data_offset + entry.data_length,
                   new |-> <<[directive_type |-> DirectiveType_from(entry.directive_number),
                              data |-> SubSeq(f, data_offset + 1,
                                              data_offset + entry.data_length),
                              at |-> p]>>]

\* one iteration of the `for` of ModuleDirectivesTable::read, cursor at p
ModuleDirectivesTable_step(f, p, h, e_lfanew) ==
    IF ~CanRead(f, p, 8) THEN [st |-> "err", pos |-> Len(f), new |-> <<>>]
    ELSE LET entry == ModuleDirectiveRecord_at(f, p)
             data_offset == DirectiveDataOffset(entry, h, e_lfanew)
         IN  IF entry.data_length > 0 /\ ~CanRead(f, data_offset, entry.data_length)
             THEN [st |-> "err", pos |-> IF data_offset > Len(f) THEN data_offset ELSE Len(f),
                   new |-> <<>>]
             ELSE [st |-> "run", pos |-> p + 8,
                   new |-> <<[directive_type |-> DirectiveType_from(entry.directive_number),
                              data |-> SubSeq(f, data_offset + 1,
                                              data_offset + entry.data_length),
                              at |-> p]>>]

\* bounds of the directive images
MaxDirectives == 2
DirBase == 2
DirGap == 3
DirDataLen == 6

\* absolute offset of the data area that follows the table
DirDataStart == DirBase + DirGap + 8 * MaxDirectives

DirRecordImages ==
    {U16Bytes(n) \o U16Bytes(l) \o U32Bytes(o) :
        n \in {32769, 2, 32773}, l \in {0, 2},
        o \in {DirDataStart, DirDataStart - DirBase, DirDataStart + 2}}

InitDir ==
    /\ \E rs \in UNION {[1..n -> DirRecordImages] : n \in 0..MaxDirectives},
          m \in {LX_MAGIC, 1}, withImp \in BOOLEAN, cut \in {0, DirDataLen} :
           /\ file = Zeros(DirBase + DirGap) \o Flatten(rs)
                         \o Zeros(8 * (MaxDirectives - Len(rs)))
                         \o [k \in 1..(DirDataLen - cut) |-> 100 + k]
           /\ header = [e32_magic |-> m,
                        e32_dirtab |-> DirGap, e32_dircnt |-> Len(rs),
                        e32_impmod |-> IF withImp THEN DirGap ELSE 0,
                        e32_impmodcnt |-> IF withImp THEN Len(rs) ELSE 0]
    /\ base_offset = DirBase
    /\ pos = 0
    /\ pc = "start"
    /\ err = NoErr
    /\ directives = <<>>
    /\ new_header = <<>>
    /\ mod_tab = <<>>
    /\ entry_table = <<>>
    /\ object_pages = <<>>
    /\ IdleSeg
    /\ IdleEnt
    /\ IdleFix
    /\ IdleImp

\* the early return, or the seek to the table
DirStart ==
    /\ pc = "start"
    /\ IF header.e32_impmod = 0 \/ header.e32_impmodcnt = 0
       THEN pc' = "ok" /\ pos' = pos
       ELSE pc' = "records" /\ pos' = header.e32_impmod + base_offset
    /\ UNCHANGED <<tabVars, file, err, segVars, entVars, lxVars, fixVars, impVars>>

\* one iteration of `for _ in 0..header.e32_impmodcnt`
DirRecord ==
    /\ pc = "records"
    /\ Len(directives) < header.e32_impmodcnt
    /\ LET r == ModuleDirectivesTable_step(file, pos, header, base_offset)
       IN  /\ pos' = r.pos
           /\ directives' = directives \o r.new
           /\ pc' = IF r.st = "run" THEN pc ELSE "err"
           /\ err' = IF r.st = "run" THEN err ELSE EofError
    /\ UNCHANGED <<file, new_header, mod_tab, entry_table, object_pages,
                   segVars, entVars, lxVars, fixVars, impVars>>

\* Ok(Self { directives })
DirDone ==
    /\ pc = "records"
    /\ Len(directives) = header.e32_impmodcnt
    /\ pc' = "ok"
    /\ UNCHANGED <<tabVars, file, pos, err, segVars, entVars, lxVars, fixVars, impVars>>

NextDir == DirStart \/ DirRecord \/ DirDone

SpecDir == InitDir /\ [][NextDir]_vars

-----------------------------------------------------------------------------
(* NE relocation table read record by record: exe286/segrelocs.rs          *)

\* bounds of the relocation table images
MaxRelRecords == 2
RelPad == 1

\* records of every kind: address type, flags, site offset, payload
RelRecordImages ==
    {<<3, 0, 16, 0, 1, 0, 32, 0>>, <<2, 4, 16, 0, 255, 0, 5, 0>>,
     <<3, 1, 18, 0, 2, 0, 7, 0>>, <<5, 5, 18, 0, 1, 0, 9, 0>>,
     <<3, 2, 20, 0, 1, 0, 40, 0>>, <<3, 250, 20, 0, 2, 0, 41, 0>>}
    \cup {<<3, 3, 22, 0, t, 0, 0, 0>> : t \in {0, 1, 5, 6, 7}}

InitRel ==
    /\ IdleTab
    /\ \E rs \in UNION {[1..n -> RelRecordImages] : n \in 0..MaxRelRecords},
          c \in 0..(MaxRelRecords + 1), cut \in {0, 1} :
           LET img == U16Bytes(c) \o Flatten(rs)
           IN  file = Zeros(RelPad) \o SubSeq(img, 1, Len(img) - cut)
    /\ pos = RelPad
    /\ pc = "count"
    /\ err = NoErr
    /\ attempt = [st |-> "none", count |-> 0, rel_entries |-> <<>>]
    /\ e_align = 0
    /\ e_cseg = 0
    /\ segments = <<>>
    /\ IdleEnt
    /\ IdleLx
    /\ IdleFix
    /\ IdleImp

\* `r.read_exact(&mut count_buf)?`
RelCount ==
    /\ pc = "count"
    /\ IF CanRead(file, pos, 2)
       THEN /\ attempt' = [attempt EXCEPT !.st = "run", !.count = U16At(file, pos)]
            /\ pos' = pos + 2
            /\ pc' = "records"
            /\ err' = err
       ELSE /\ attempt' = [attempt EXCEPT !.st = "err"]
            /\ pos' = Len(file)
            /\ pc' = "err"
            /\ err' = EofError
    /\ UNCHANGED <<tabVars, file, e_align, e_cseg, segments, entVars, lxVars, fixVars, impVars>>

\* one iteration of `for _ in 0..count`
RelRecord ==
    /\ pc = "records"
    /\ Len(attempt.rel_entries) < attempt.count
    /\ IF CanRead(file, pos, 8)
       THEN /\ attempt' = [attempt EXCEPT
                              !.rel_entries = Append(@, RelocationEntry(file, pos))]
            /\ pos' = pos + 8
            /\ UNCHANGED <<pc, err>>
       ELSE /\ attempt' = [attempt EXCEPT !.st = "err"]
            /\ pos' = Len(file)
            /\ pc' = "err"
            /\ err' = EofError
    /\ UNCHANGED <<tabVars, file, e_align, e_cseg, segments, entVars, lxVars, fixVars, impVars>>

\* Ok(Self { rel_entries: entries })
RelDone ==
    /\ pc = "records"
    /\ Len(attempt.rel_entries) = attempt.count
    /\ attempt' = [attempt EXCEPT !.st = "ok"]
    /\ pc' = "ok"
    /\ UNCHANGED <<tabVars, file, pos, err, e_align, e_cseg, segments,
                   entVars, lxVars, fixVars, impVars>>

NextRel == RelCount \/ RelRecord \/ RelDone

SpecRel == InitRel /\ [][NextRel]_vars

-----------------------------------------------------------------------------
(* NE import resolution per segment: exe286/segtab.rs, exe286/mod.rs       *)

\* read_module_offset: the u16 at mod_tab + 2 * (imp_mod - 1), None when 0;
\* `imp_mod - 1` on a u16 aborts or wraps when imp_mod is 0
read_module_offset(f, modtab, imp_mod, wrap) ==
    IF imp_mod = 0 /\ ~wrap THEN [st |-> "panic", pos |-> None, value |-> None]
    ELSE LET ptr == modtab + 2 * ((imp_mod - 1) % 65536)
         IN  IF ~CanRead(f, ptr, 2) THEN [st |-> "err", pos |-> Len(f), value |-> None]
             ELSE [st |-> "ok", pos |-> ptr + 2,
                   value |-> IF U16At(f, ptr) = 0 THEN None ELSE U16At(f, ptr)]

\* read_module_name: length byte and name at imp_tab + mod_offset
read_module_name(f, imp_tab, mod_offset) ==
    LET ptr == imp_tab + mod_offset
    IN  IF ~CanRead(f, ptr, 1) \/ ~CanRead(f, ptr + 1, U8At(f, ptr))
        THEN [st |-> "err", pos |-> Len(f), name |-> PascalString_empty]
        ELSE LET len == U8At(f, ptr)
             IN  [st |-> "ok", pos |-> ptr + 1 + len,
                  name |-> PascalString_new(len, SubSeq(f, ptr + 2, ptr + 1 + len))]

\* read_procedure_name: as read_module_name, with `if proc_len == 0`
read_procedure_name(f, imp_tab, imp_offset) ==
    LET ptr == imp_tab + imp_offset
    IN  IF ~CanRead(f, ptr, 1) THEN [st |-> "err", pos |-> Len(f), name |-> PascalString_empty]
        ELSE LET len == U8At(f, ptr)
             IN  IF len = 0 THEN [st |-> "ok", pos |-> ptr + 1, name |-> PascalString_empty]
                 ELSE IF ~CanRead(f, ptr + 1, len)
                 THEN [st |-> "err", pos |-> Len(f), name |-> PascalString_empty]
                 ELSE [st |-> "ok", pos |-> ptr + 1 + len,
                       name |-> PascalString_new(len, SubSeq(f, ptr + 2, ptr + 1 + len))]

\* DllImport::new
DllImport_new(dll_name, name, ord, file_pointer) ==
    [dll_name |-> dll_name, name |-> name, ordinal |-> ord, file_pointer |-> file_pointer]

\* read_import_name: Ok(None), here no import, when the module offset is 0
read_import_name(f, import_name, imp_tab, modtab, wrap) ==
    LET o == read_module_offset(f, modtab, import_name.imp_mod_index, wrap)
    IN  IF o.st # "ok" THEN [st |-> o.st, pos |-> o.pos, import |-> <<>>]
        ELSE IF o.value = None THEN [st |-> "ok", pos |-> o.pos, import |-> <<>>]
        ELSE LET d == read_module_name(f, imp_tab, o.value)
             IN  IF d.st # "ok" THEN [st |-> "err", pos |-> d.pos, import |-> <<>>]
                 ELSE LET n == read_procedure_name(f, imp_tab, import_name.imp_offset)
                      IN  IF n.st # "ok" THEN [st |-> "err", pos |-> n.pos, import |-> <<>>]
                          ELSE [st |-> "ok", pos |-> n.pos,
                                import |-> <<DllImport_new(d.name, n.name, 0,
                                               imp_tab + import_name.imp_offset)>>]

\* read_import_ordinal
read_import_ordinal(f, import_ord, imp_tab, modtab, wrap) ==
    LET o == read_module_offset(f, modtab, import_ord.imp_mod_index, wrap)
    IN  IF o.st # "ok" THEN [st |-> o.st, pos |-> o.pos, import |-> <<>>]
        ELSE IF o.value = None THEN [st |-> "ok", pos |-> o.pos, import |-> <<>>]
        ELSE LET d == read_module_name(f, imp_tab, o.value)
             IN  IF d.st # "ok" THEN [st |-> "err", pos |-> d.pos, import |-> <<>>]
                 ELSE [st |-> "ok", pos |-> d.pos,
                       import |-> <<DllImport_new(d.name, PascalString_empty,
                                                 import_ord.imp_ordinal, d.pos)>>]

\* the `for reloc in &relocs.rel_entries` loop from entry k on
RECURSIVE NeImportsLoop(_, _, _, _, _, _, _, _)
NeImportsLoop(f, p, rels, k, imp_tab, modtab, acc, wrap) ==
    IF k > Len(rels) THEN [st |-> "ok", pos |-> p, imp_list |-> acc]
    ELSE LET t == rels[k].rel_type
             r == IF t.kind = "ImportName"
                  THEN read_import_name(f, t, imp_tab, modtab, wrap)
                  ELSE IF t.kind = "ImportOrdinal"
                  THEN read_import_ordinal(f, t, imp_tab, modtab, wrap)
                  ELSE [st |-> "ok", pos |-> p, import |-> <<>>]
         IN  IF r.st # "ok" THEN [st |-> r.st, pos |-> r.pos, imp_list |-> acc]
             ELSE NeImportsLoop(f, r.pos, rels, k + 1, imp_tab, modtab,
                                acc \o r.import, wrap)

\* NeSegmentDllImportsTable::read
NeSegmentDllImportsTable_read(f, p, relocs, imp_tab, modtab, seg_number, wrap) ==
    LET r == NeImportsLoop(f, p, relocs.rel_entries, 1, imp_tab, modtab, <<>>, wrap)
    IN  [st |-> r.st, pos |-> r.pos,
         table |-> [seg_number |-> seg_number, imp_list |-> r.imp_list]]

\* bounds of the import images
NiLfanew == 2
NiModTab == 1
MaxNiMod == 2
MaxNiRelocs == 2

\* import name pool: "" at 0, "KER" at 1, "GU" at 5, "OPEN" at 8
NiPool == <<0, 3, 75, 69, 82, 2, 71, 85, 4, 79, 80, 69, 78>>

NiModRefs == UNION {[1..n -> {0, 1, 5}] : n \in 1..MaxNiMod}

\* relocation entries as RelocationTable::read returns them
NiRelocSet ==
    {RelocationEntry(rec, 0) :
        rec \in {<<3, 2, 16, 0, m, 0, off, 0>> : m \in 0..MaxNiMod, off \in {0, 8}}
           \cup {<<3, 1, 16, 0, m, 0, 7, 0>> : m \in 0..MaxNiMod}
           \cup {<<3, 0, 16, 0, 1, 0, 32, 0>>}}

NiRelocLists == UNION {[1..n -> NiRelocSet] : n \in 0..MaxNiRelocs}

InitNeImp ==
    /\ \E refs \in NiModRefs, cut \in {0, 2}, first \in NiRelocLists,
          more \in {<<>>, <<<<>>>>,
                    <<<<RelocationEntry(<<3, 1, 16, 0, 1, 0, 9, 0>>, 0)>>>>} :
           /\ file = Zeros(NiLfanew + NiModTab)
                       \o Flatten([k \in 1..Len(refs) |-> U16Bytes(refs[k])])
                       \o SubSeq(NiPool, 1, Len(NiPool) - cut)
           /\ new_header = [e_mod_tab |-> NiModTab, e_cmod |-> Len(refs),
                            e_imp_tab |-> NiModTab + 2 * Len(refs)]
           /\ segments = [k \in 1..(1 + Len(more)) |->
                             [relocs |-> [rel_entries |->
                                 IF k = 1 THEN first ELSE more[k - 1]]]]
    /\ pos = NiLfanew
    /\ pc = "imports"
    /\ err = NoErr
    /\ imports = <<>>
    /\ next_record = 1
    /\ import_data = <<>>
    /\ modules = <<>>
    /\ mod_tab = <<>>
    /\ entry_table = <<>>
    /\ object_pages = <<>>
    /\ directives = <<>>
    /\ e_align = 0
    /\ e_cseg = 0
    /\ attempt = [st |-> "none"]
    /\ IdleEnt
    /\ IdleLx
    /\ IdleFix

\* one iteration of `for (i, s) in segments.iter().enumerate()`
NeImpSegment ==
    /\ pc = "imports"
    /\ next_record <= Len(segments)
    /\ \E wrap \in BOOLEAN :
           LET r == NeSegmentDllImportsTable_read(file, pos, segments[next_record].relocs,
                        new_header.e_imp_tab + NiLfanew,
                        new_header.e_mod_tab + NiLfanew, next_record, wrap)
           IN  /\ pos' = r.pos
               /\ IF r.st = "ok"
                  THEN /\ imports' = Append(imports, r.table)
                       /\ next_record' = next_record + 1
                       /\ UNCHANGED <<pc, err>>
                  ELSE /\ pc' = r.st
                       /\ err' = IF r.st = "err" THEN EofError ELSE err
                       /\ UNCHANGED <<imports, next_record>>
    /\ UNCHANGED <<file, tabVars, import_data, modules, segVars, entVars, lxVars, fixVars>>

\* the layout is built once every segment is done
NeImpDone ==
    /\ pc = "imports"
    /\ next_record > Len(segments)
    /\ pc' = "ok"
    /\ UNCHANGED <<file, pos, err, tabVars, impVars, segVars, entVars, lxVars, fixVars>>

NextNeImp == NeImpSegment \/ NeImpDone

SpecNeImp == InitNeImp /\ [][NextNeImp]_vars

-----------------------------------------------------------------------------
(* Resident and non-resident name tables: exe286/resntab.rs,               *)
(* exe386/nrestab.rs                                                       *)

\* an entry reader that forgets the ordinal word
ResidentNameEntry_read_NoOrdinal(f, p) ==
    IF ~CanRead(f, p, 1) THEN [st |-> "err", pos |-> Len(f), entry |-> <<>>]
    ELSE LET len == U8At(f, p)
         IN  IF len = 0 THEN [st |-> "none", pos |-> p + 1, entry |-> <<>>]
             ELSE IF ~CanRead(f, p + 1, len)
             THEN [st |-> "err", pos |-> Len(f), entry |-> <<>>]
             ELSE [st |-> "some", pos |-> p + 1 + len,
                   entry |-> <<[name |-> PascalString_new(len, SubSeq(f, p + 2, p + 1 + len)),
                                ordinal |-> 0]>>]

\* ResidentNameEntry::read: Ok(None) at a zero length byte
ResidentNameEntry_read(f, p) ==
    IF ~CanRead(f, p, 1) THEN [st |-> "err", pos |-> Len(f), entry |-> <<>>]
    ELSE LET len == U8At(f, p)
         IN  IF len = 0 THEN [st |-> "none", pos |-> p + 1, entry |-> <<>>]
             ELSE IF ~CanRead(f, p + 1, len + 2)
             THEN [st |-> "err", pos |-> Len(f), entry |-> <<>>]
             ELSE [st |-> "some", pos |-> p + 1 + len + 2,
                   entry |-> <<[name |-> PascalString_new(len, SubSeq(f, p + 2, p + 1 + len)),
                                ordinal |-> U16At(f, p + 1 + len)]>>]

\* NonResidentNameEntry::read
NonResidentNameEntry_read(f, p) ==
    IF ~CanRead(f, p, 1) THEN [st |-> "err", pos |-> Len(f), entry |-> <<>>]
    ELSE LET len == U8At(f, p)
         IN  IF len = 0 THEN [st |-> "none", pos |-> p + 1, entry |-> <<>>]
             ELSE IF ~CanRead(f, p + 1, len)
             THEN [st |-> "err", pos |-> Len(f), entry |-> <<>>]
             ELSE IF ~CanRead(f, p + 1 + len, 2)
             THEN [st |-> "err", pos |-> Len(f), entry |-> <<>>]
             ELSE [st |-> "some", pos |-> p + 1 + len + 2,
                   entry |-> <<[name |-> PascalString_new(len, SubSeq(f, p + 2, p + 1 + len)),
                                ordinal |-> U16At(f, p + 1 + len)]>>]

\* bounds of the name table images
MaxNames == 3
NamePad == 2

\* (LenString, ordinal) pairs; one name holds a zero byte
NameEntryImages == {<<1, 65, 0, 0>>, <<2, 66, 67, 1, 0>>, <<2, 0, 68, 2, 1>>}

NameTableImages ==
    {Flatten(es) \o tail :
        es \in UNION {[1..n -> NameEntryImages] : n \in 0..MaxNames},
        tail \in {<<>>, <<0>>, <<0, 1, 70, 3, 0>>}}

InitNames ==
    /\ IdleTab
    /\ \E img \in NameTableImages, cut \in 0..2 :
           /\ cut <= Len(img)
           /\ file = Zeros(NamePad) \o SubSeq(img, 1, Len(img) - cut)
    /\ pos = NamePad
    /\ pc \in {"resn", "nres"}
    /\ err = NoErr
    /\ entries = <<>>
    /\ cb_ent_tab = 0
    /\ bytes_remaining = 0
    /\ ordinal = 1
    /\ bundles = <<>>
    /\ IdleSeg
    /\ IdleLx
    /\ IdleFix
    /\ IdleImp

\* one iteration of `while let Some(entry) = ResidentNameEntry::read(r)?`
ResnEntry ==
    /\ pc = "resn"
    /\ LET r == ResidentNameEntry_read(file, pos)
       IN  /\ pos' = r.pos
           /\ entries' = entries \o r.entry
           /\ pc' = IF r.st = "some" THEN pc ELSE IF r.st = "none" THEN "ok" ELSE "err"
           /\ err' = IF r.st = "err" THEN EofError ELSE err
    /\ UNCHANGED <<file, cb_ent_tab, bytes_remaining, ordinal, bundles,
                   tabVars, segVars, lxVars, fixVars, impVars>>

\* the same loop over NonResidentNameEntry::read
NresEntry ==
    /\ pc = "nres"
    /\ LET r == NonResidentNameEntry_read(file, pos)
       IN  /\ pos' = r.pos
           /\ entries' = entries \o r.entry
           /\ pc' = IF r.st = "some" THEN pc ELSE IF r.st = "none" THEN "ok" ELSE "err"
           /\ err' = IF r.st = "err" THEN EofError ELSE err
    /\ UNCHANGED <<file, cb_ent_tab, bytes_remaining, ordinal, bundles,
                   tabVars, segVars, lxVars, fixVars, impVars>>

NextNames == ResnEntry \/ NresEntry

SpecNames == InitNames /\ [][NextNames]_vars

-----------------------------------------------------------------------------
(* NE module flags: exe286/header.rs                                       *)

\* DataSegment::from: `match f & 0x0000`
DataSegment_from(f) ==
    LET v == f % 1
    IN  IF v = 1 THEN "Single" ELSE IF v = 2 THEN "Multiple" ELSE "No"

\* NewExecutableHeader::module_flags
module_flags(h) ==
    [linkage_errors |-> BitSet(h.e_flags, 32768),
     library_module |-> BitSet(h.e_flags, 2),
     protected_mode_only |-> BitSet(h.e_flags, 8),
     data_segment |-> DataSegment_from(h.e_flags),
     non_conforming |-> BitSet(h.e_flag_others, 64),
     image_error |-> BitSet(h.e_flag_others, 32)]

\* header flag words of the model
NeFlagSet == {lo + hi : lo \in 0..3, hi \in {0, 8, 32768, 32776}}
NeFlagOthersSet == {0, 32, 64, 96}

InitNeFlags ==
    /\ new_header \in [e_flags : NeFlagSet, e_flag_others : NeFlagOthersSet]
    /\ mod_tab = <<>>
    /\ entry_table = <<>>
    /\ object_pages = <<>>
    /\ directives = <<>>
    /\ file = <<>>
    /\ pos = 0
    /\ pc = "flags"
    /\ err = NoErr
    /\ IdleSeg
    /\ IdleEnt
    /\ IdleLx
    /\ IdleFix
    /\ IdleImp

\* a call of module_flags on the header; `attempt` holds what it returned
NeModuleFlags ==
    /\ pc = "flags"
    /\ attempt' = module_flags(new_header)
    /\ pc' = "ok"
    /\ UNCHANGED <<file, pos, err, tabVars, e_align, e_cseg, segments,
                   entVars, lxVars, fixVars, impVars>>

NextNeFlags == NeModuleFlags

SpecNeFlags == InitNeFlags /\ [][NextNeFlags]_vars

-----------------------------------------------------------------------------
(* Verify record directive: exe386/dirtab.rs, read_verify_record           *)

\* the inner `for _ in 0..module_object_count` loop: `offset + 8` is tested,
\* data[offset .. offset + 9] is indexed
RECURSIVE ObjectVerifications(_, _, _, _)
ObjectVerifications(data, offset, n, acc) ==
    IF n = 0 \/ offset + 8 > Len(data)
    THEN [st |-> "ok", offset |-> offset, object_verifications |-> acc]
    ELSE IF offset + 10 > Len(data)
    THEN [st |-> "panic", offset |-> offset, object_verifications |-> acc]
    ELSE ObjectVerifications(data, offset + 10, n - 1,
             Append(acc, [object_number |-> U16At(data, offset),
                          base_address |-> U32At(data, offset + 2),
                          virtual_size |-> U32At(data, offset + 6)]))

\* the body of the outer loop once its `offset + 8` test has passed
ModuleDependency_at(data, offset) ==
    LET count == U16At(data, offset + 4)
        objs == ObjectVerifications(data, offset + 6, count, <<>>)
    IN  [st |-> objs.st, offset |-> objs.offset,
         dependency |-> [module_ordinal |-> U16At(data, offset),
                         version |-> U16At(data, offset + 2),
                         module_object_count |-> count,
                         object_verifications |-> objs.object_verifications]]

\* bounds of the verify record images
MaxDeps == 2
MaxObjs == 2
MaxVrCut == 10

VrObjectImage == <<1, 0, 0, 16, 0, 0, 0, 32, 0, 0>>

VrDependencyImage(n) == <<3, 0, 1, 0>> \o U16Bytes(n) \o Flatten([k \in 1..n |-> VrObjectImage])

\* well formed data of exact length, then cut short or with a larger count
VrDataImages ==
    {U16Bytes(c) \o Flatten([k \in 1..Len(ns) |-> VrDependencyImage(ns[k])]) :
        ns \in UNION {[1..d -> 0..MaxObjs] : d \in 0..MaxDeps}, c \in 0..(MaxDeps + 1)}

InitVerify ==
    /\ \E img \in VrDataImages, cut \in 0..MaxVrCut, num \in {32769, 2} :
           /\ cut <= Len(img)
           /\ directives = <<[directive_type |-> DirectiveType_from(num),
                              data |-> SubSeq(img, 1, Len(img) - cut)]>>
    /\ new_header = <<>>
    /\ mod_tab = <<>>
    /\ entry_table = <<>>
    /\ object_pages = <<>>
    /\ file = <<>>
    /\ pos = 0
    /\ pc = "verify"
    /\ err = NoErr
    /\ IdleSeg
    /\ IdleEnt
    /\ IdleLx
    /\ IdleFix
    /\ IdleImp

\* the two tests and the count; `attempt` holds the locals of the call
VrStart ==
    /\ pc = "verify"
    /\ LET d == directives[1]
       IN  IF d.directive_type.kind # "VerifyRecord"
           THEN /\ pc' = "err"
                /\ err' = [kind |-> "InvalidData", what |-> "Not a verify record directive"]
                /\ UNCHANGED attempt
           ELSE IF Len(d.data) < 2
           THEN /\ pc' = "err"
                /\ err' = [kind |-> "InvalidData", what |-> "Verify record too short"]
                /\ UNCHANGED attempt
           ELSE /\ pc' = "deps"
                /\ attempt' = [entry_count |-> U16At(d.data, 0), i |-> 0, offset |-> 2,
                               dependencies |-> <<>>]
                /\ UNCHANGED err
    /\ UNCHANGED <<file, pos, tabVars, e_align, e_cseg, segments,
                   entVars, lxVars, fixVars, impVars>>

\* one iteration of `for _ in 0..entry_count`
VrDependency ==
    /\ pc = "deps"
    /\ attempt.i < attempt.entry_count
    /\ LET data == directives[1].data
       IN  IF attempt.offset + 8 > Len(data)
           THEN /\ pc' = "ok"
                /\ UNCHANGED attempt
           ELSE LET r == ModuleDependency_at(data, attempt.offset)
                IN  IF r.st = "panic"
                    THEN /\ pc' = "panic"
                         /\ UNCHANGED attempt
                    ELSE /\ pc' = pc
                         /\ attempt' = [attempt EXCEPT !.i = @ + 1, !.offset = r.offset,
                                           !.dependencies = Append(@, r.dependency)]
    /\ UNCHANGED <<file, pos, err, tabVars, e_align, e_cseg, segments,
                   entVars, lxVars, fixVars, impVars>>

\* Ok(VerifyRecord { module_dependencies: dependencies })
VrDone ==
    /\ pc = "deps"
    /\ attempt.i = attempt.entry_count
    /\ pc' = "ok"
    /\ UNCHANGED <<file, pos, err, tabVars, segVars, entVars, lxVars, fixVars, impVars>>

NextVerify == VrStart \/ VrDependency \/ VrDone

SpecVerify == InitVerify /\ [][NextVerify]_vars

-----------------------------------------------------------------------------
(* LE/LX module type: exe386/header.rs                                     *)

\* LinearExecutableHeader::module_type: four `& mask != 0` tests in order
module_type(h) ==
    IF BitSet(h.e32_mflags, 32768) THEN "DLL"
    ELSE IF BitSet(h.e32_mflags, 131072) THEN "PDD"
    ELSE IF BitSet(h.e32_mflags, 131072) \/ BitSet(h.e32_mflags, 32768) THEN "VDD"
    ELSE IF BitSet(h.e32_mflags, 131072) \/ BitSet(h.e32_mflags, 65536) THEN "DLD"
    ELSE "EXE"

\* module flag words: every value of bits 15..17 over some other flags
LxTypeBitsSet == {32768 * t : t \in 0..7}
LxOtherFlagSet == {0, 1, 4, 16, 20, 768, 8192, 8208}

InitLxType ==
    /\ IdleTab
    /\ \E t \in LxTypeBitsSet, o \in LxOtherFlagSet : header = [e32_mflags |-> t + o]
    /\ base_offset = 0
    /\ file = <<>>
    /\ pos = 0
    /\ pc = "type"
    /\ err = NoErr
    /\ IdleSeg
    /\ IdleEnt
    /\ IdleFix
    /\ IdleImp

\* a call of module_type on the header; `attempt` holds what it returned
LxModuleType ==
    /\ pc = "type"
    /\ attempt' = [module_type |-> module_type(header)]
    /\ pc' = "ok"
    /\ UNCHANGED <<file, pos, err, tabVars, e_align, e_cseg, segments,
                   entVars, lxVars, fixVars, impVars>>

NextLxType == LxModuleType

SpecLxType == InitLxType /\ [][NextLxType]_vars

-----------------------------------------------------------------------------
(* The decoding loops as running programs.  A decoder is sequential code:  *)
(* whenever its next step is enabled it takes it, which is weak fairness   *)
(* of the step relation.                                                   *)

FairSpecEnt == SpecEnt /\ WF_vars(NextEnt)

FairSpecLeEnt == SpecLeEnt /\ WF_vars(NextLeEnt)

FairSpecNames == SpecNames /\ WF_vars(NextNames)

RECURSIVE SumCounts(_)
SumCounts(bs) == IF bs = <<>> THEN 0 ELSE Head(bs).count + SumCounts(Tail(bs))

\* what the claims say of an entry: its variant, and the segment of a fixed one
Shape(e) == IF e.kind = "Fixed" THEN <<"Fixed", e.segment>> ELSE <<e.kind>>

\* The entries of at most n bundles laid out from offset o on, up to the
\* first bundle whose count is 0: (count, 0) is count unused entries,
\* (count, 0xFF) count moveable ones of 6 bytes, (count, s) count fixed ones
\* of 3 bytes in segment s.
RECURSIVE TableShape(_, _, _)
TableShape(f, o, n) ==
    IF n = 0 \/ ~CanRead(f, o, 2) \/ U8At(f, o) = 0 THEN <<>>
    ELSE LET c == U8At(f, o)
             sg == U8At(f, o + 1)
         IN  IF sg = 0 THEN [k \in 1..c |-> <<"Unused">>] \o TableShape(f, o + 2, n - 1)
             ELSE IF sg = 255
             THEN [k \in 1..c |-> <<"Moveable">>] \o TableShape(f, o + 2 + 6 * c, n - 1)
             ELSE [k \in 1..c |-> <<"Fixed", sg>>] \o TableShape(f, o + 2 + 3 * c, n - 1)

EntTerminated == bundles # <<>> /\ bundles[Len(bundles)].count = 0

\* C2: EntryTable::read returns, in file order, the entries of the bundles
\* that precede the first bundle whose count is 0 (unused, moveable or fixed
\* by segId) and nothing after it, even when bytes of cbEntries remain; the
\* number of entries is the sum of the bundle counts and the running ordinal
\* ends one past it.
C2_EntriesOfBundles ==
    pc = "ok" /\ bundles # <<>> =>
        /\ [k \in 1..Len(entries) |-> Shape(entries[k])]
               = TableShape(file, EntTabOffset, Len(bundles))
        /\ Len(entries) = SumCounts(bundles)
        /\ ordinal = Len(entries) + 1
        /\ EntTerminated \/ bytes_remaining = 0

C2_Witness ==
    /\ pc = "ok"
    /\ EntTerminated
    /\ bytes_remaining > 0
    /\ bytes_remaining = cb_ent_tab - (pos - EntTabOffset)
    /\ Len(bundles) = 3
    /\ \E k \in 1..Len(entries) : entries[k].kind = "Unused"
    /\ \E k \in 1..Len(entries) : entries[k].kind = "Fixed" /\ entries[k].segment = 2
    /\ Len(entries) = 3

\* C10: a bundle header (count, segId # 0) that declares more bytes than
\* remain of cbEntries after it makes the read fail with InvalidBundle
\* carrying the file offset of that header, and none of its entries is read.
C10_InvalidBundle ==
    bundles # <<>> =>
        LET b == bundles[Len(bundles)]
            left == cb_ent_tab - (b.at + 2 - EntTabOffset)
        IN  b.count # 0 /\ b.seg_id # 0 /\ left >= 0
                /\ b.count * EntrySize(b.seg_id) > left
                => /\ pc = "err"
                   /\ err # NoErr
                   /\ err.kind = "InvalidData"
                   /\ "offset" \in DOMAIN err
                   /\ err.offset = b.at
                   /\ Len(entries) = SumCounts(SubSeq(bundles, 1, Len(bundles) - 1))

\* C3: LinearExecutableHeader::read returns Ok exactly when the magic is LE
\* (0x454C) or LX (0x584C) and byteOrder and wordOrder are both 0; another
\* magic is the error "invalid magic", a non-zero order byte the error
\* "only little endian".  (Runs in which the byte buffer could not be cast
\* for want of alignment are left aside.)
C3_HeaderAccepted ==
    /\ pc \in {"ok", "err"}
    /\ base_offset # None
    /\ CanRead(file, base_offset, LxHeaderSize)
    /\ pc = "err" => err.what # "Unable to cast bytes into header"
    => LET m == U16At(file, base_offset)
           good == m \in {TrueLeMagic, TrueLxMagic}
           little == U8At(file, base_offset + 2) = 0 /\ U8At(file, base_offset + 3) = 0
       IN  /\ pc = "ok" <=> good /\ little
           /\ ~good => err.what = "Invalid magic"
           /\ good /\ ~little
                  => err.what = "Only Little endian linked modules are supported!"

\* exclusive end, relative to the record stream, of page i's range
PageBound(i) ==
    IF i + 1 < Len(fixup_page_table.page_offsets)
    THEN fixup_page_table.page_offsets[i + 2]
    ELSE fixup_page_table.end_of_fixup_records

\* C4: while decoding page i FixupRecordsTable::read consumes no byte at or
\* beyond fixupRecordBase + pageIndex[i+1]: every record it returns ends
\* inside the range of the page it was decoded for, and a record that does
\* not fit in what is left of the range is an error, never a result.
C4_WithinPageRange ==
    \A k \in 1..Len(records) :
        records[k].end <= FixRecOffset + PageBound(records[k].page)

\* the sizes the record format gives to the parts of a record
LayoutS(src) == IF BitSet(src, 32) THEN 1 ELSE 2
LayoutW(tgt) == IF BitSet(tgt, 64) THEN 2 ELSE 1
LayoutSecond(src, tgt) ==
    CASE tgt % 4 = 0 -> IF src % 16 = 2 THEN 0 ELSE IF BitSet(tgt, 16) THEN 4 ELSE 2
      [] tgt % 4 = 1 -> IF BitSet(tgt, 128) THEN 1 ELSE IF BitSet(tgt, 16) THEN 4 ELSE 2
      [] tgt % 4 = 2 -> IF BitSet(tgt, 16) THEN 4 ELSE 2
      [] OTHER -> 0
LayoutA(tgt) == IF ~BitSet(tgt, 4) THEN 0 ELSE IF BitSet(tgt, 32) THEN 4 ELSE 2

\* the record the format lays out at offset o of f
LayoutRecord(f, o) ==
    LET src == U8At(f, o)
        tgt == U8At(f, o + 1)
        S == LayoutS(src)
        W == LayoutW(tgt)
        X == LayoutSecond(src, tgt)
        A == LayoutA(tgt)
        N == IF BitSet(src, 32) THEN U8At(f, o + 2) ELSE 0
        first == UIntAt(f, o + 2 + S, W)
        second == UIntAt(f, o + 2 + S + W, X)
    IN  [size |-> 2 + S + (W + X) + A + 2 * N,
         rec |-> [source |-> src, target_flags |-> tgt,
                  source_offset_or_count |-> UIntAt(f, o + 2, S),
                  target_data |->
                      CASE tgt % 4 = 0 -> [kind |-> "Internal", object_number |-> first,
                                           target_offset |-> IF X = 0 THEN <<>> ELSE <<second>>]
                        [] tgt % 4 = 1 -> [kind |-> "ImportedOrdinal", module_ordinal |-> first,
                                           import_ordinal |-> second]
                        [] tgt % 4 = 2 -> [kind |-> "ImportedName", module_ordinal |-> first,
                                           procedure_name_offset |-> second]
                        [] OTHER -> [kind |-> "FixupViaEntryTable", entry_number |-> first],
                  additive_value |->
                      IF A = 0 THEN <<>> ELSE <<UIntAt(f, o + 2 + S + (W + X), A)>>,
                  source_offset_list |->
                      IF ~BitSet(src, 32) THEN <<>>
                      ELSE <<[k \in 1..N |->
                                 U16At(f, o + 2 + S + (W + X) + A + 2 * (k - 1))]>>]]

\* C5: for every pair of flag bytes a record returned by
\* read_single_fixup_record took exactly 2 + S + T + A + 2*N bytes, and its
\* fields are the bytes of that layout in order: flags, count or site
\* offset, target (object or module number, then target offset, ordinal or
\* name offset), additive, and the N source offsets last.
C5_RecordLayout ==
    \A k \in 1..Len(records) :
        LET r == records[k]
            l == LayoutRecord(file, r.at)
        IN  /\ r.end - r.at = l.size
            /\ r.rec = l.rec

\* src = 0x27, internal target (object 1, offset 0x1234), N = 3
C5_Witness ==
    /\ pc = "ok"
    /\ Len(records) = 1
    /\ records[1].rec.source = 39
    /\ records[1].rec.target_data
           = [kind |-> "Internal", object_number |-> 1, target_offset |-> <<4660>>]
    /\ records[1].rec.source_offset_or_count = 3
    /\ records[1].rec.source_offset_list = << <<16, 32, 48>> >>
    /\ records[1].end - records[1].at = 2 + 1 + 3 + 0 + 6

\* records of the import resolver's input that name a module outside
\* [1, impmodcnt]
IsImportRecord(k) ==
    import_data.fixup_records[k].target_data.kind \in {"ImportedName", "ImportedOrdinal"}

BadModuleOrdinal(k) ==
    /\ IsImportRecord(k)
    /\ import_data.fixup_records[k].target_data.module_ordinal
           \notin 1..header.e32_impmodcnt

\* C6: an import fixup whose module ordinal is outside [1, impmodcnt]
\* (0 included) makes ImportRelocationsTable::read return an error value
\* for an invalid module ordinal: the read does not panic, and the record
\* is never passed with an import tuple pushed for it.
C6_InvalidModuleOrdinal ==
    pc \in {"records", "ok", "err", "panic"} =>
        /\ pc # "panic"
        /\ \A k \in 1..Len(import_data.fixup_records) :
               BadModuleOrdinal(k) => next_record < k
        /\ pc = "err" /\ next_record < Len(import_data.fixup_records)
               /\ BadModuleOrdinal(next_record + 1) /\ err.kind # "UnexpectedEof"
               => err.kind \in {"InvalidModuleOrdinal", "InvalidData"}

\* C7: every import tuple has a non-empty module name and a module ordinal
\* in [1, impmodcnt]; the module list never holds more than impmodcnt
\* names, so no string of the import procedure name pool is in it.
C7_ModulesBounded ==
    pc \in {"records", "ok", "err", "panic"} =>
        /\ Len(modules) <= header.e32_impmodcnt
        /\ \A k \in 1..Len(imports) :
               /\ imports[k].module_name.length > 0
               /\ imports[k].module_index + 1 \in 1..header.e32_impmodcnt

\* C11: once the base offset is decided it is dos.lfanew when the file
\* starts with a valid MZ header, and 0 when the file has no MZ header and
\* begins with an LE/LX header (magic LE or LX, both order bytes 0): the
\* header looked at in that case is the one at file offset 0.
C11_BaseOffset ==
    pc \in {"header", "ok", "err"} =>
        /\ CanRead(file, 0, MzHeaderSize) /\ U16At(file, 0) = E_MAGIC
               => base_offset = U32At(file, 60)
        /\ CanRead(file, 0, LxHeaderSize)
               /\ U16At(file, 0) \in {TrueLeMagic, TrueLxMagic}
               /\ U8At(file, 2) = 0 /\ U8At(file, 3) = 0
               => base_offset = 0

\* the file starts with a valid MZ header whose e_lfanew is 0
PureMz ==
    /\ CanRead(file, 0, MzHeaderSize)
    /\ U16At(file, 0) = E_MAGIC
    /\ U32At(file, 60) = 0

\* C12: for a valid MZ header with lfanew = 0 the image is pure MZ and no
\* inner header is decoded: LinearExecutableLayout::get never reads past
\* the 64 bytes of the MZ header, so no LE/LX header is read at offset 0 and
\* none is returned.
C12_PureMzNoInnerDecode ==
    PureMz => pos <= MzHeaderSize /\ header = <<>>

\* C13: every sub-decoder starts at the absolute offset the header gives
\* for its table, whatever cursor the sub-decoder before it has left: the
\* module reference table returned is the e_cmod words found at
\* e_lfanew + e_mod_tab.
C13_SubDecodeAtOwnOffset ==
    pc = "ok" /\ new_header # <<>> =>
        mod_tab = [k \in 1..new_header.e_cmod |->
                      U16At(file, NeOffset(new_header.e_mod_tab) + 2 * (k - 1))]

\* the u32 at index k (from 0) of the fixup page table in the file
PageIndexAt(k) == U32At(file, header.e32_fpagetab + base_offset + 4 * k)

\* C14: with a non-zero fixup page table pointer FixupPageTable::read reads
\* pageCount + 1 u32: the first pageCount are page_offsets in order, the
\* last is end_of_fixup_records; the records of logical page i start at
\* fixupRecordBase + page_offsets[i], follow one another, and each starts
\* below page_offsets[i+1], or below end_of_fixup_records for the last
\* page.  With a zero pointer the table is empty and no record is decoded.
C14_FixupPageTable ==
    pc \in {"page", "records", "ok"} =>
        /\ header.e32_fpagetab # 0 =>
              /\ fixup_page_table.page_offsets
                     = [k \in 1..header.e32_mpages |-> PageIndexAt(k - 1)]
              /\ fixup_page_table.end_of_fixup_records = PageIndexAt(header.e32_mpages)
              /\ pc = "page" /\ logical_page = 0 =>
                     pos = header.e32_fpagetab + base_offset + 4 * (header.e32_mpages + 1)
        /\ header.e32_fpagetab = 0 =>
              /\ fixup_page_table = [page_offsets |-> <<>>, end_of_fixup_records |-> 0]
              /\ records = <<>>
        /\ header.e32_fpagetab # 0 => \A k \in 1..Len(records) :
              LET r == records[k]
                  bound == IF r.page + 1 < header.e32_mpages
                           THEN PageIndexAt(r.page + 1)
                           ELSE PageIndexAt(header.e32_mpages)
              IN  /\ r.page < header.e32_mpages
                  /\ r.at < FixRecOffset + bound
                  /\ IF k > 1 /\ records[k - 1].page = r.page
                     THEN r.at = records[k - 1].end
                     ELSE r.at = FixRecOffset + PageIndexAt(r.page)
        /\ pc = "ok" /\ header.e32_fpagetab # 0 =>
              \A i \in 0..(header.e32_mpages - 1) :
                  (\E k \in 1..Len(records) : records[k].page = i)
                      <=> PageIndexAt(i) < (IF i + 1 < header.e32_mpages
                                            THEN PageIndexAt(i + 1)
                                            ELSE PageIndexAt(header.e32_mpages))

\* two pages with one record each, the second bounded by the end marker
C14_Witness ==
    /\ pc = "ok"
    /\ header.e32_fpagetab # 0
    /\ fixup_page_table = [page_offsets |-> <<0, 7>>, end_of_fixup_records |-> 12]
    /\ Len(records) = 2
    /\ records[1].page = 0 /\ records[1].end = FixRecOffset + 7
    /\ records[2].page = 1 /\ records[2].end = FixRecOffset + 12

\* the width of one entry of a bundle of the given type byte
VariantWidth(t) ==
    CASE t % 128 = 0 -> 0
      [] t % 128 = 1 -> 3
      [] t % 128 = 2 -> 5
      [] t % 128 = 3 -> 5
      [] OTHER -> 7

\* C15: every bundle (count N, type) that EntryTable::read returns took
\* the 2 header bytes alone for type 0, the header, a u16 object and N
\* entries of 3, 5, 5 bytes for types 1, 2, 3, and the header, one reserved
\* u16 and N entries of 7 bytes (flags, module ordinal, offset or ordinal)
\* for type 4; it holds N entries of its variant; no bundle follows a
\* count of 0.
C15_LeBundles ==
    \A i \in 1..Len(entry_table) :
        LET b == entry_table[i]
            t == U8At(file, b.at + 1)
            w == VariantWidth(t)
            lead == IF t % 128 = 0 THEN 2 ELSE 4
        IN  /\ b.count = U8At(file, b.at) /\ b.count # 0
            /\ Len(b.entries) = b.count
            /\ b.end - b.at = lead + w * b.count
            /\ t % 128 \in {1, 2, 3} => b.object = U16At(file, b.at + 2)
            /\ \A k \in 1..b.count :
                   LET o == b.at + lead + w * (k - 1)
                   IN  b.entries[k] =
                       CASE t % 128 = 0 -> [kind |-> "Unused"]
                         [] t % 128 = 1 -> [kind |-> "Entry16", flags |-> U8At(file, o),
                                            offset |-> U16At(file, o + 1)]
                         [] t % 128 = 2 -> [kind |-> "EntryCallGate",
                                            flags |-> U8At(file, o),
                                            offset |-> U16At(file, o + 1),
                                            callgate_selector |-> U16At(file, o + 3)]
                         [] t % 128 = 3 -> [kind |-> "Entry32", flags |-> U8At(file, o),
                                            offset |-> U32At(file, o + 1)]
                         [] OTHER -> [kind |-> "EntryForwarder", flags |-> U8At(file, o),
                                      module_ordinal |-> U16At(file, o + 1),
                                      offset_or_ordinal |-> U32At(file, o + 3)]

\* C16: ObjectPagesTable::read returns exactly pageCount (e32_mpages)
\* entries, LX entries read from pageCount * 8 bytes for an LX header and LE
\* entries read from pageCount * 4 bytes for an LE header, whatever the
\* pageShift / lastPageSize slot holds.
C16_PageCount ==
    pc = "ok" /\ "e32_pageshift_or_lastpage" \in DOMAIN header =>
        /\ Len(object_pages) = header.e32_mpages
        /\ pos = PagePad + header.e32_mpages
                     * (IF header.e32_magic \in {LX_MAGIC, LX_CIGAM} THEN 8 ELSE 4)

\* C17: the data of every module directive record is the dataLength bytes
\* at headerBase + dataOffset when directiveNumber & 0x8000 is set
\* (resident form) and at the absolute offset dataOffset otherwise; a
\* record whose data lies in the file there is decoded, not refused.
C17_DirectiveData ==
    /\ \A k \in 1..Len(directives) :
           LET e == ModuleDirectiveRecord_at(file, directives[k].at)
               from == IF BitSet(e.directive_number, 32768)
                       THEN base_offset + e.data_offset ELSE e.data_offset
           IN  directives[k].data = SubSeq(file, from + 1, from + e.data_length)
    /\ pc = "err" =>
           \E k \in 1..header.e32_impmodcnt :
               LET e == ModuleDirectiveRecord_at(file, header.e32_impmod + base_offset
                                                           + 8 * (k - 1))
                   from == IF BitSet(e.directive_number, 32768)
                           THEN base_offset + e.data_offset ELSE e.data_offset
               IN  ~CanRead(file, from, e.data_length)

\* C18: a decode whose next read needs bytes the file does not hold ends
\* with an error value: the object page table decode of an LX header never
\* panics when the file stops before a page entry it goes on to read.
C18_TruncatedIsError ==
    "e32_pageshift_or_lastpage" \in DOMAIN header
        /\ header.e32_magic \in {LX_MAGIC, LX_CIGAM}
        /\ ~CanRead(file, PagePad + 8 * Len(object_pages), 8)
        => pc # "panic"

\* C19: a header whose page count is above the ceiling on header counts
\* makes the decode fail with ImplausibleCount before the fixup page table
\* is allocated or read: the cursor never moves into the table and no
\* read loop sized by the count is run.
C19_ImplausibleCount ==
    "e32_fpagetab" \in DOMAIN header /\ header.e32_fpagetab # 0
        /\ header.e32_mpages >= HugePageCount /\ pc # "pagetab"
        => /\ pc = "err"
           /\ err.kind = "ImplausibleCount"
           /\ pos <= header.e32_fpagetab + base_offset

\* the relocation record the format lays out at offset o
LayoutReloc(o) ==
    LET kind == U8At(file, o + 1) % 4
    IN  [rel_atp |-> U8At(file, o), rel_rtp |-> kind,
         rel_add |-> BitSet(U8At(file, o + 1), 4),
         rel_seg_ptr |-> U16At(file, o + 2),
         rel_type |->
             CASE kind = 0 -> [kind |-> "Internal", int_seg |-> U8At(file, o + 4),
                               int_mov |-> (U8At(file, o + 4) = 255),
                               int_offset |-> U16At(file, o + 6)]
               [] kind = 1 -> [kind |-> "ImportOrdinal",
                               imp_mod_index |-> U16At(file, o + 4),
                               imp_ordinal |-> U16At(file, o + 6)]
               [] kind = 2 -> [kind |-> "ImportName",
                               imp_mod_index |-> U16At(file, o + 4),
                               imp_offset |-> U16At(file, o + 6)]
               [] OTHER -> [kind |-> "OSFixup", osf_type |-> U16At(file, o + 4),
                            osf_padd |-> U16At(file, o + 6)]]

\* C20: RelocationTable::read reads a u16 count and count records of 8
\* bytes, 2 + 8*count bytes in all, and returns them in file order with
\* kind = byte 1 & 3, additive = byte 1 & 4, address type = byte 0, site
\* offset = bytes 2-3 and the payload of the kind: segId byte 4 (moveable
\* iff 0xFF) and u16 at 6-7; module index u16 at 4-5 and u16 at 6-7; OS
\* fixup type = u16 at 4-5.
C20_NeRelocRecords ==
    pc = "ok" /\ "count" \in DOMAIN attempt =>
        /\ attempt.count = U16At(file, RelPad)
        /\ pos = RelPad + 2 + 8 * attempt.count
        /\ attempt.rel_entries
               = [k \in 1..attempt.count |-> LayoutReloc(RelPad + 2 + 8 * (k - 1))]

\* the LenString stored at offset o of the image
LenStringAt(o) ==
    IF CanRead(file, o, 1) /\ CanRead(file, o + 1, U8At(file, o))
    THEN [length |-> U8At(file, o),
          string |-> SubSeq(file, o + 2, o + 1 + U8At(file, o))]
    ELSE [length |-> None, string |-> <<>>]

NiImpBase == NiLfanew + new_header.e_imp_tab

NiModBase == NiLfanew + new_header.e_mod_tab

IsNeImport(rel) == rel.rel_type.kind \in {"ImportName", "ImportOrdinal"}

\* the (module, procedure, ordinal) tuple the format gives an import relocation
NeImportOf(rel) ==
    LET t == rel.rel_type
        r == U16At(file, NiModBase + 2 * (t.imp_mod_index - 1))
    IN  [dll_name |-> LenStringAt(NiImpBase + r),
         name |-> IF t.kind = "ImportName" THEN LenStringAt(NiImpBase + t.imp_offset)
                  ELSE [length |-> 0, string |-> <<>>],
         ordinal |-> IF t.kind = "ImportOrdinal" THEN t.imp_ordinal ELSE 0]

NiOnlyImports(rels) == SelectSeq(rels, IsNeImport)

NiIndexInRange(rels) ==
    \A k \in 1..Len(rels) :
        IsNeImport(rels[k]) => rels[k].rel_type.imp_mod_index \in 1..new_header.e_cmod

NiTuple(imp) == [dll_name |-> imp.dll_name, name |-> imp.name, ordinal |-> imp.ordinal]

\* C21: every NE import relocation with module index m in [1, cmod] resolves
\* to the LenString at impTabBase + r, r the u16 at modTabBase + 2*(m - 1);
\* by name the procedure is the LenString at impTabBase + nameOffset, by
\* ordinal the ordinal is carried with an empty name; the imports of a
\* segment are listed in relocation order.
C21_NeImports ==
    "e_imp_tab" \in DOMAIN new_header =>
        \A s \in 1..Len(imports) :
            LET rels == NiOnlyImports(segments[s].relocs.rel_entries)
            IN  NiIndexInRange(rels) =>
                    /\ imports[s].seg_number = s
                    /\ Len(imports[s].imp_list) = Len(rels)
                    /\ \A k \in 1..Len(rels) :
                          NiTuple(imports[s].imp_list[k]) = NeImportOf(rels[k])

\* the pairs the format lays out from offset o up to the first zero length
\* byte, at most n of them
RECURSIVE LayoutNames(_, _)
LayoutNames(o, n) ==
    IF n = 0 \/ ~CanRead(file, o, 1) \/ U8At(file, o) = 0
       \/ ~CanRead(file, o + 1, U8At(file, o) + 2)
    THEN <<>>
    ELSE LET L == U8At(file, o)
         IN  <<[name |-> [length |-> L, string |-> [i \in 1..L |-> U8At(file, o + i)]],
                ordinal |-> U8At(file, o + 1 + L) + 256 * U8At(file, o + 2 + L)]>>
             \o LayoutNames(o + 1 + L + 2, n - 1)

RECURSIVE NamesSize(_)
NamesSize(es) == IF es = <<>> THEN 0 ELSE 1 + Head(es).name.length + 2 + NamesSize(Tail(es))

\* C22: a name table decodes to the (LenString, ordinal) pairs that precede
\* the first zero length byte, in file order, each pair taking 1 + L + 2
\* bytes and each name holding exactly L bytes; nothing after the zero
\* length byte is decoded.
C22_NameTable ==
    /\ pc \in {"resn", "nres"} =>
          /\ entries = LayoutNames(NamePad, Len(entries))
          /\ pos = NamePad + NamesSize(entries)
    /\ pc = "ok" =>
          /\ entries = LayoutNames(NamePad, MaxNames + 1)
          /\ pos = NamePad + NamesSize(entries) + 1
          /\ U8At(file, pos - 1) = 0
    /\ \A k \in 1..Len(entries) : Len(entries[k].name.string) = entries[k].name.length

\* C22 witness: two or more pairs, one name with a zero byte inside, decoded
\* from a table that has further bytes after its zero length byte
C22_Witness ==
    /\ pc = "ok"
    /\ Len(entries) >= 2
    /\ "name" \in DOMAIN entries[1]
    /\ \E k \in 1..Len(entries) : entries[k].name.string = <<0, 68>>
    /\ pos < Len(file)

\* C23: the sector alignment shift used for segment offsets is in [1, 16]:
\* a stored 0 becomes 9 and any other stored value outside [1, 16] is
\* rejected on read, so sectorBase << shift never aborts.
C23_ShiftInRange ==
    /\ pc # "panic"
    /\ \A i \in 1..Len(segments) :
           "shift_count" \in DOMAIN segments[i] => segments[i].shift_count \in 1..16

\* C24: the data-segment kind reported by module_flags is e_flags & 0x0003:
\* 0 gives No, 1 gives Single, 2 gives Multiple.
C24_DataSegmentKind ==
    pc = "ok" /\ "data_segment" \in DOMAIN attempt =>
        LET bits == new_header.e_flags % 4
        IN  /\ bits = 0 => attempt.data_segment = "No"
            /\ bits = 1 => attempt.data_segment = "Single"
            /\ bits = 2 => attempt.data_segment = "Multiple"

\* the end offset of c dependencies laid out from offset o, None when the
\* data is too short for them
RECURSIVE VrLayoutEnd(_, _, _)
VrLayoutEnd(data, o, c) ==
    IF c = 0 THEN o
    ELSE IF o + 6 > Len(data) THEN None
    ELSE LET n == data[o + 5] + 256 * data[o + 6]
         IN  IF o + 6 + 10 * n > Len(data) THEN None
             ELSE VrLayoutEnd(data, o + 6 + 10 * n, c - 1)

\* u16 count C, then C dependencies of 6 + objectCount * 10 bytes, no more
VrWellFormed(data) ==
    /\ Len(data) >= 2
    /\ VrLayoutEnd(data, 2, data[1] + 256 * data[2]) = Len(data)

VrIsVerify == directives[1].directive_type.kind = "VerifyRecord"

\* C25: for a verify record whose data is well formed and of exact length,
\* read_verify_record returns exactly C dependencies, each with exactly
\* objectCount object verifications, a last dependency with objectCount = 0
\* included; a directive of another type, or data shorter than 2 bytes,
\* yields an error.
C25_VerifyRecord ==
    pc \in {"ok", "err", "panic"} /\ Len(directives) = 1
        /\ "data" \in DOMAIN directives[1] /\ file = <<>> =>
        LET data == directives[1].data
        IN  /\ VrIsVerify /\ VrWellFormed(data) =>
                  /\ pc = "ok"
                  /\ Len(attempt.dependencies) = data[1] + 256 * data[2]
                  /\ \A k \in 1..Len(attempt.dependencies) :
                        Len(attempt.dependencies[k].object_verifications)
                            = attempt.dependencies[k].module_object_count
            /\ ~VrIsVerify \/ Len(data) < 2 => pc = "err"

\* C28: read_verify_record never indexes the data at or beyond data.len():
\* it returns a value or an error for data of any length and content.
C28_VerifyInBounds ==
    Len(directives) = 1 /\ "data" \in DOMAIN directives[1] /\ file = <<>>
        => pc # "panic"

\* where ModuleDirectivesTable::read seeks before its first record
DirTableStart == header.e32_impmod + base_offset

\* C26: reading the data of one module directive leaves the table cursor
\* unchanged: record k is read from tableStart + 8*k whatever the
\* dataOffset and dataLength of the records before it.
C26_CursorRestored ==
    "e32_dircnt" \in DOMAIN header =>
        /\ \A k \in 1..Len(directives) : directives[k].at = DirTableStart + 8 * (k - 1)
        /\ pc = "records" => pos = DirTableStart + 8 * Len(directives)
        /\ pc = "ok" /\ directives # <<>> => pos = DirTableStart + 8 * Len(directives)

\* C26 witness: two records decoded, the first with data read elsewhere
C26_Witness ==
    /\ "e32_dircnt" \in DOMAIN header
    /\ pc = "ok"
    /\ Len(directives) = 2
    /\ Len(directives[1].data) = 2
    /\ directives[2].at = DirTableStart + 8

\* C27: for every cbEntries the NE EntryTable::read never consumes more than
\* cbEntries bytes from the entry table offset, and its bytes-remaining
\* counter equals cbEntries minus the bytes consumed so far and never goes
\* below zero: no underflow or wrap-around when 2 is subtracted for a
\* bundle header.
C27_BytesRemaining ==
    pc \in {"run", "ok", "err", "panic"} /\ cb_ent_tab \in 1..MaxCb /\ pos >= EntTabOffset
        /\ new_header = <<>> /\ header = <<>> =>
        /\ pc # "panic"
        /\ pos - EntTabOffset <= cb_ent_tab
        /\ bytes_remaining \in 0..cb_ent_tab
        /\ pc \in {"run", "ok"} => bytes_remaining = cb_ent_tab - (pos - EntTabOffset)

\* the module-type bits of e32_mflags: mflags & 0x00038000
LxTypeBits == ((header.e32_mflags \div 32768) % 8) * 32768

\* C29: module_type returns the type whose mask equals the module-type bits
\* of e32_mflags: 0 EXE, 0x8000 DLL, 0x20000 PDD, 0x28000 VDD, 0x30000 DLD.
C29_ModuleType ==
    pc = "ok" /\ "module_type" \in DOMAIN attempt =>
        /\ LxTypeBits = 0 => attempt.module_type = "EXE"
        /\ LxTypeBits = 32768 => attempt.module_type = "DLL"
        /\ LxTypeBits = 131072 => attempt.module_type = "PDD"
        /\ LxTypeBits = 163840 => attempt.module_type = "VDD"
        /\ LxTypeBits = 196608 => attempt.module_type = "DLD"

\* C30: on every finite input each table decoding loop terminates: every
\* iteration consumes input or leaves the loop, so the decode ends with a
\* result or with an error value and never loops forever.
C30_LoopsEnd == <>(pc \in {"ok", "err"})

====
